---- MODULE Spec2Model ----
(***************************************************************************)
(* BroSync battle engine: one battle between a challenger and an opponent, *)
(* the WebSocket sessions of BattleConsumer, the countdown task, the       *)
(* scoring service and the staleness sweep of send_battle_request, over    *)
(* the rows of Battle, BattleParticipant, BattleSubmission and User.       *)
(* Every database statement (or transaction.atomic block) is one step.     *)
(***************************************************************************)
EXTENDS Integers, Sequences, FiniteSets, Bags, TLC

\* ---- bounds of the model ------------------------------------------------
NProblems == 1
MaxConnects == 3
MaxSubmits == 1
MaxActiveSubmits == 2
MaxScoreUnits == 2
MaxSolved == 2
MaxEndRequests == 1
MaxTicks == 1
ClockStep == 20
MaxNow == 45
MaxCases == 2
MaxStrLen == 2
MaxRunHalfSeconds == 7
MaxLimitHalfSeconds == 3
MaxRequests == 2

\* ---- program constants ---------------------------------------------------
PROBLEM_POINTS == 10
BATTLE_WIN_POINTS == 20
DURATION_MINUTES == 30
STALE_WAITING_MINUTES == 15
DURATION_BUFFER_MINUTES == 5
DEFAULT_TIMEOUT == 10
TIMEOUT_BUFFER == 2
COMPILE_TIMEOUT_MS == 30000
\* @shared_task(max_retries=2) of execute_submission
max_retries == 2
REQUEST_EXPIRY_MINUTES == 5

Challenger == "alice"
Opponent == "bob"
Participants == {Challenger, Opponent}
Sessions == {"s1", "s2"}
\* The connections are interchangeable: the first one to connect is called s1.
FirstSession == "s1"
Problems == 1 .. NProblems
NoUser == "none"
NoTime == -1
NoProblem == 0
\* A request without credentials, and an authenticated user outside the battle.
Anonymous == "anonymous"
Outsider == "carol"
Visitors == {Anonymous, Outsider, Challenger, Opponent}

\* The columns of accounts.User that hold statistics.
UserStatFields == {"problems_solved", "contests_participated", "rating"}

VARIABLES
    battle,        \* the Battle row
    participants,  \* the two BattleParticipant rows
    submissions,   \* the BattleSubmission rows (a bag)
    user_stats,    \* what the User rows record of battles played / won / rating
    now,           \* timezone.now(), in minutes since the battle was created
    session,       \* per connection: position in its handler and its locals
    timer,         \* per connection: the countdown task it owns
    group,         \* channel-layer group battle_<id>
    group_sent,    \* what was group_send-ed to the battle group, per type
    hist,          \* counts of committed writes and of handler invocations
    judge,         \* the judge: a LocalSandbox / DockerSandbox and the run in progress
    requests       \* the BattleRequest rows and the HTTP calls that work on them

dbvars == <<battle, participants, submissions, user_stats>>
vars == <<battle, participants, submissions, user_stats, now, session, timer,
          group, group_sent, hist, judge, requests>>

\* ---- rows ----------------------------------------------------------------
IdleSession == [pc |-> "closed", user |-> NoUser, bstatus |-> "none",
                problem |-> NoProblem, verdict |-> "none", points |-> 0,
                close_code |-> 0, snapshot |-> "none"]
NoTimer == [pc |-> "none", bstatus |-> "none", remaining |-> 0]

\* No result yet / failed_case None.
NoCase == 0
NoResult == [status |-> "none", execution_time_ms |-> 0, failed_case |-> NoCase]

\* A sandbox object before run() is called: self.timeout = 10, nothing on disk.
JudgeIdle == [pc |-> "idle", backend |-> "none", supported |-> TRUE,
              time_limit_ms |-> 0, timeout |-> DEFAULT_TIMEOUT, n_cases |-> 0,
              log |-> <<>>, total_ms |-> 0, max_ms |-> 0, passed |-> 0,
              result |-> NoResult, scratch |-> 0, containers |-> 0,
              handle |-> FALSE, raised |-> "none",
              sub_status |-> "none", retries |-> 0, queued |-> FALSE,
              stdout |-> <<>>, expected |-> <<>>]

\* The HTTP calls in progress (send a request, respond to one).
Callers == {"h1", "h2"}
IdleCaller == [pc |-> "idle", rid |-> 0, accepted |-> FALSE, expires_at |-> NoTime]
\* No BattleRequest row, no call in progress.
NoRequests == [rows |-> <<>>, callers |-> [c \in Callers |-> IdleCaller],
               battles |-> <<>>]

Init ==
    /\ battle = [status |-> "waiting", winner |-> NoUser, started_at |-> NoTime,
                 ends_at |-> NoTime, ended_at |-> NoTime, created_at |-> 0]
    /\ participants = [u \in Participants |->
                         [score |-> 0, problems_solved |-> 0, is_connected |-> FALSE]]
    /\ submissions = EmptyBag
    /\ user_stats = [u \in Participants |->
                       [battles_played |-> 0, battles_won |-> 0, rating |-> 0]]
    /\ now = 0
    /\ session = [s \in Sessions |-> IdleSession]
    /\ timer = [s \in Sessions |-> NoTimer]
    /\ group = {}
    /\ group_sent = [battle_state |-> EmptyBag, timer_tick |-> EmptyBag,
                     scoreboard_update |-> EmptyBag, battle_ended |-> EmptyBag]
    /\ hist = [connects |-> 0, submits |-> 0, end_requests |-> 0, ticks |-> 0,
               activations |-> 0, completions |-> 0, timers_created |-> 0,
               winner_writes |-> 0]
    /\ judge = JudgeIdle
    /\ requests = NoRequests


Max(a, b) == IF a >= b THEN a ELSE b

GroupSend(type, payload) ==
    [group_sent EXCEPT ![type] = @ (+) SetToBag({payload})]

\* The difference without the clamp at zero.
seconds_remaining_NoClamp(b, t) ==
    IF b.status # "active" \/ b.ends_at = NoTime THEN 0 ELSE b.ends_at - t

\* ---- Battle.seconds_remaining -------------------------------------------
seconds_remaining(b, t) ==
    IF b.status # "active" \/ b.ends_at = NoTime THEN 0
    ELSE Max(0, b.ends_at - t)

\* ---- connect -------------------------------------------------------------
\* connect, lines 41-64: authenticate, load the battle, join the group, accept.
Connect(s, u) ==
    /\ session[s].pc \in {"closed", "crashed"}
    /\ timer[s].pc \in {"none", "done", "cancelled"}
    /\ hist.connects < MaxConnects
    /\ hist.connects = 0 => s = FirstSession
    /\ session' = [session EXCEPT ![s] =
                     [IdleSession EXCEPT !.pc = "c_mark", !.user = u,
                                         !.bstatus = battle.status]]
    /\ timer' = [timer EXCEPT ![s] = NoTimer]
    /\ group' = group \cup {s}
    /\ hist' = [hist EXCEPT !.connects = @ + 1]
    /\ UNCHANGED <<dbvars, now, group_sent, judge, requests>>

_mark_connected(s) ==
    /\ session[s].pc = "c_mark"
    /\ participants' = [participants EXCEPT ![session[s].user].is_connected = TRUE]
    /\ session' = [session EXCEPT ![s].pc = "c_count"]
    /\ UNCHANGED <<battle, submissions, user_stats, now, timer, group, group_sent, hist, judge, requests>>

\* The count of open connections instead of connected participants.
ConnectedCount_OpenSessions ==
    Cardinality({s \in Sessions : session[s].pc \notin {"closed", "crashed"}})

ConnectedCount == Cardinality({u \in Participants : participants[u].is_connected})

\* _both_connected; when false the handler goes on to _send_battle_state with
\* the battle it loaded at the start of connect.
_both_connected(s) ==
    /\ session[s].pc = "c_count"
    /\ session' = [session EXCEPT ![s] =
                     IF ConnectedCount >= 2 THEN [@ EXCEPT !.pc = "c_activate"]
                     ELSE [@ EXCEPT !.pc = "idle", !.bstatus = "none",
                                    !.snapshot = session[s].bstatus]]
    /\ UNCHANGED <<dbvars, now, timer, group, group_sent, hist, judge, requests>>

\* The update without its status filter, as in the legacy _activate_battle.
ActivateFilter_Unconditional(b) == TRUE

\* Battle.objects.filter(id=..., status=WAITING)
ActivateFilter(b) == b.status = "waiting"

_try_activate_battle(s) ==
    /\ session[s].pc = "c_activate"
    /\ IF ActivateFilter(battle)
       THEN /\ battle' = [battle EXCEPT !.status = "active", !.started_at = now,
                                        !.ends_at = now + DURATION_MINUTES]
            /\ hist' = [hist EXCEPT !.activations = @ + 1]
            /\ session' = [session EXCEPT ![s].pc = "c_start", ![s].bstatus = "active"]
       ELSE /\ UNCHANGED <<battle, hist>>
            /\ session' = [session EXCEPT ![s].pc = "c_refetch",
                                          ![s].bstatus = battle.status]
    /\ UNCHANGED <<participants, submissions, user_stats, now, timer, group, group_sent, judge, requests>>

\* connect, lines 74-78 and 84: the activating caller creates the countdown
\* task, broadcasts battle_state to the group and sends its own snapshot.
StartTimerAndBroadcast(s) ==
    /\ session[s].pc = "c_start"
    /\ timer' = [timer EXCEPT ![s] = [NoTimer EXCEPT !.pc = "sleep"]]
    /\ group_sent' = GroupSend("battle_state", session[s].bstatus)
    /\ hist' = [hist EXCEPT !.timers_created = @ + 1]
    /\ session' = [session EXCEPT ![s].pc = "idle", ![s].bstatus = "none",
                                  ![s].snapshot = session[s].bstatus]
    /\ UNCHANGED <<dbvars, now, group, judge, requests>>

\* The caller that lost publishes its snapshot to the whole group as well.
RefetchAndSend_Broadcasts(s) ==
    /\ session[s].pc = "c_refetch"
    /\ session' = [session EXCEPT ![s].pc = "idle", ![s].bstatus = "none",
                                  ![s].snapshot = battle.status]
    /\ group_sent' = GroupSend("battle_state", battle.status)
    /\ UNCHANGED <<dbvars, now, timer, group, hist, judge, requests>>

\* connect, lines 79-84: the caller that lost re-reads the battle and sends
\* what it read to its own client (_send_battle_state).
RefetchAndSend(s) ==
    /\ session[s].pc = "c_refetch"
    /\ session' = [session EXCEPT ![s].pc = "idle", ![s].bstatus = "none",
                                  ![s].snapshot = battle.status]
    /\ UNCHANGED <<dbvars, now, timer, group, group_sent, hist, judge, requests>>

\* A disconnect that also cancels the battle ("one user disconnected early").
disconnect_CancelsBattle(s) ==
    /\ session[s].pc = "idle"
    /\ timer' = [timer EXCEPT ![s] =
                   IF @.pc \in {"sleep", "tick", "end"}
                   THEN [NoTimer EXCEPT !.pc = "cancelled"] ELSE @]
    /\ group' = group \ {s}
    /\ session' = [session EXCEPT ![s] = IdleSession]
    /\ battle' = [battle EXCEPT !.status =
                    IF @ \in {"waiting", "active"} THEN "cancelled" ELSE @]
    /\ UNCHANGED <<participants, submissions, user_stats, now, group_sent, hist, judge, requests>>

\* ---- disconnect ----------------------------------------------------------
disconnect(s) ==
    /\ session[s].pc = "idle"
    /\ timer' = [timer EXCEPT ![s] =
                   IF @.pc \in {"sleep", "tick", "end"}
                   THEN [NoTimer EXCEPT !.pc = "cancelled"] ELSE @]
    /\ group' = group \ {s}
    /\ session' = [session EXCEPT ![s] = IdleSession]
    /\ UNCHANGED <<dbvars, now, group_sent, hist, judge, requests>>

\* ---- connect, the rejected handshakes --------------------------------------
\* connect, lines 41-60: the close code of the handshake, 0 when it goes on.
CloseCode(u, found) ==
    IF u = Anonymous THEN 4001
    ELSE IF ~found THEN 4004
    ELSE IF u \notin {Challenger, Opponent} THEN 4003
    ELSE 0

\* The handshake joins the group before it looks at the user.
ConnectRejected_JoinsGroup(s, u, found) ==
    /\ session[s].pc \in {"closed", "crashed"}
    /\ timer[s].pc \in {"none", "done", "cancelled"}
    /\ hist.connects < MaxConnects
    /\ CloseCode(u, found) # 0
    /\ session' = [session EXCEPT ![s] =
                     [IdleSession EXCEPT !.pc = "rejected", !.user = u,
                                         !.close_code = CloseCode(u, found)]]
    /\ timer' = [timer EXCEPT ![s] = NoTimer]
    /\ group' = group \cup {s}
    /\ hist' = [hist EXCEPT !.connects = @ + 1]
    /\ UNCHANGED <<dbvars, now, group_sent, judge, requests>>

\* connect, lines 41-60: user u asks for a battle id that is found or not;
\* the handshake is closed with the code and connect returns.
ConnectRejected(s, u, found) ==
    /\ session[s].pc \in {"closed", "crashed"}
    /\ timer[s].pc \in {"none", "done", "cancelled"}
    /\ hist.connects < MaxConnects
    /\ CloseCode(u, found) # 0
    /\ session' = [session EXCEPT ![s] =
                     [IdleSession EXCEPT !.pc = "rejected", !.user = u,
                                         !.close_code = CloseCode(u, found)]]
    /\ timer' = [timer EXCEPT ![s] = NoTimer]
    /\ hist' = [hist EXCEPT !.connects = @ + 1]
    /\ UNCHANGED <<dbvars, now, group, group_sent, judge, requests>>

\* disconnect, lines 90-97, after a rejected handshake: a consumer closed
\* with 4001 has no _timer_task attribute and the handler raises; the
\* others hold no timer and discard a channel that never joined the group.
DisconnectRejected(s) ==
    /\ session[s].pc = "rejected"
    /\ session' = [session EXCEPT ![s] =
                     [IdleSession EXCEPT !.pc = IF session[s].close_code = 4001
                                               THEN "crashed" ELSE "closed"]]
    /\ group' = IF session[s].close_code = 4001 THEN group ELSE group \ {s}
    /\ UNCHANGED <<dbvars, now, timer, group_sent, hist, judge, requests>>

\* ---- winner computation (end_battle, _end_battle_sync_from_completed) -----
Perms == {r \in [1 .. Cardinality(Participants) -> Participants] :
            \A i, j \in DOMAIN r : i # j => r[i] # r[j]}

\* .order_by("-score", "-problems_solved"): a is not ranked after b.
RanksBefore(parts, a, b) ==
    \/ parts[a].score > parts[b].score
    \/ /\ parts[a].score = parts[b].score
       /\ parts[a].problems_solved >= parts[b].problems_solved

\* Every order the database may return for that order_by (full ties are
\* returned in either order).
order_by(parts) ==
    {r \in Perms : \A i, j \in DOMAIN r : i < j => RanksBefore(parts, r[i], r[j])}

\* The top of the ranking wins whatever the scores.
ComputeWinner_TopAlways(parts, ranked) ==
    IF Len(ranked) = 0 THEN NoUser ELSE ranked[1]

\* The top of the ranking wins unless both sort keys are equal.
ComputeWinner_TieBreak(parts, ranked) ==
    IF Len(ranked) = 0 THEN NoUser
    ELSE IF \/ Len(ranked) = 1
            \/ parts[ranked[1]].score > parts[ranked[2]].score
            \/ parts[ranked[1]].problems_solved > parts[ranked[2]].problems_solved
         THEN ranked[1]
         ELSE NoUser

\* winner = top.user only if there is no second or top.score > second.score
ComputeWinner(parts, ranked) ==
    IF Len(ranked) = 0 THEN NoUser
    ELSE IF Len(ranked) = 1 \/ parts[ranked[1]].score > parts[ranked[2]].score
         THEN ranked[1]
         ELSE NoUser

\* User.objects.filter(...).update(<fields>) raises FieldDoesNotExist when a
\* named column is not a field of accounts.User.
UpdateRaises(fields) == ~(fields \subseteq UserStatFields)

PlayedUpdated(stats) ==
    [u \in Participants |-> [stats[u] EXCEPT !.battles_played = @ + 1]]

WonUpdated(stats, winner) ==
    IF winner = NoUser THEN stats
    ELSE [stats EXCEPT ![winner].battles_won = @ + 1,
                       ![winner].rating = @ + BATTLE_WIN_POINTS]

\* end_battle(battle) called with a battle object whose loaded status is
\* local_status; ranked is the participant list the query returned.
\* outcome "returned": the idempotence return of line 311;
\* outcome "raised": an exception left transaction.atomic(), which rolled back;
\* outcome "ended": the transaction committed and battle_ended is published.
end_battle(local_status, ranked) ==
    LET winner == ComputeWinner(participants, ranked)
        saved == [battle EXCEPT !.status = "completed", !.winner = winner,
                                !.ended_at = now]
    IN  IF local_status = "completed"
        THEN [outcome |-> "returned", battle |-> battle, user_stats |-> user_stats,
              winner |-> NoUser]
        ELSE IF \/ UpdateRaises({"battles_played"})
                \/ (winner # NoUser /\ UpdateRaises({"battles_won", "rating"}))
        THEN [outcome |-> "raised", battle |-> battle, user_stats |-> user_stats,
              winner |-> NoUser]
        ELSE [outcome |-> "ended", battle |-> saved,
              user_stats |-> WonUpdated(PlayedUpdated(user_stats), winner),
              winner |-> winner]

\* _end_battle_sync_from_completed: no transaction; each statement commits.
_end_battle_sync_from_completed(ranked) ==
    LET winner == ComputeWinner(participants, ranked)
        saved == [battle EXCEPT !.winner = winner, !.ended_at = now]
    IN  IF UpdateRaises({"battles_played"})
        THEN [outcome |-> "raised", battle |-> saved, user_stats |-> user_stats,
              winner |-> winner]
        ELSE IF winner # NoUser /\ UpdateRaises({"battles_won", "rating"})
        THEN [outcome |-> "raised", battle |-> saved,
              user_stats |-> PlayedUpdated(user_stats), winner |-> winner]
        ELSE [outcome |-> "ended", battle |-> saved,
              user_stats |-> WonUpdated(PlayedUpdated(user_stats), winner),
              winner |-> winner]

EndedHist(r) ==
    IF r.outcome = "ended"
    THEN [hist EXCEPT !.completions = @ + 1, !.winner_writes = @ + 1]
    ELSE hist

\* ---- countdown task -------------------------------------------------------
\* _run_timer, lines 164-171: sleep, re-read the battle, leave the loop unless
\* it is active, compute the remaining time.
TimerFetch(s) ==
    /\ timer[s].pc = "sleep"
    /\ IF battle.status # "active"
       THEN /\ timer' = [timer EXCEPT ![s] = [NoTimer EXCEPT !.pc = "done"]]
            /\ hist' = hist
       ELSE /\ seconds_remaining(battle, now) > 0 => hist.ticks < MaxTicks
            /\ timer' = [timer EXCEPT ![s] =
                           [pc |-> "tick", bstatus |-> battle.status,
                            remaining |-> seconds_remaining(battle, now)]]
            /\ hist' = [hist EXCEPT !.ticks =
                          IF seconds_remaining(battle, now) > 0 THEN @ + 1 ELSE @]
    /\ UNCHANGED <<dbvars, now, session, group, group_sent, judge, requests>>

\* _run_timer, lines 174-182: broadcast the tick; at zero go on to end_battle.
TimerTick(s) ==
    /\ timer[s].pc = "tick"
    /\ group_sent' = GroupSend("timer_tick", timer[s].remaining)
    /\ timer' = [timer EXCEPT ![s] =
                   IF timer[s].remaining <= 0 THEN [@ EXCEPT !.pc = "end"]
                   ELSE [NoTimer EXCEPT !.pc = "sleep"]]
    /\ UNCHANGED <<dbvars, now, session, group, hist, judge, requests>>

\* _run_timer, lines 181-187 with _end_battle_sync: end_battle on the battle
\* object read in this iteration; an exception is logged and the task ends.
TimerEndBattle(s) ==
    /\ timer[s].pc = "end"
    /\ \E ranked \in order_by(participants) :
         LET r == end_battle(timer[s].bstatus, ranked)
         IN  /\ battle' = r.battle
             /\ user_stats' = r.user_stats
             /\ group_sent' = IF r.outcome = "ended"
                              THEN GroupSend("battle_ended", r.winner)
                              ELSE group_sent
             /\ hist' = EndedHist(r)
    /\ timer' = [timer EXCEPT ![s] = [NoTimer EXCEPT !.pc = "done"]]
    /\ UNCHANGED <<participants, submissions, now, session, group, judge, requests>>

\* ---- request_end ----------------------------------------------------------
\* The update without its status filter.
RequestEndFilter_Unconditional(b) == TRUE

\* _Battle.objects.filter(id=..., status=ACTIVE)
RequestEndFilter(b) == b.status = "active"

_handle_request_end(s) ==
    /\ session[s].pc = "idle"
    /\ hist.end_requests < MaxEndRequests
    /\ IF RequestEndFilter(battle)
       THEN /\ battle' = [battle EXCEPT !.status = "completed"]
            /\ session' = [session EXCEPT ![s].pc = "e_sync"]
            /\ hist' = [hist EXCEPT !.end_requests = @ + 1, !.completions = @ + 1]
       ELSE /\ UNCHANGED <<battle, session>>
            /\ hist' = [hist EXCEPT !.end_requests = @ + 1]
    /\ UNCHANGED <<participants, submissions, user_stats, now, timer, group, group_sent, judge, requests>>

\* _handle_request_end, lines 209-211: re-read the battle, then
\* _end_battle_sync_from_completed; an exception leaves the consumer.
EndSyncFromCompleted(s) ==
    /\ session[s].pc = "e_sync"
    /\ \E ranked \in order_by(participants) :
         LET r == _end_battle_sync_from_completed(ranked)
         IN  /\ battle' = r.battle
             /\ user_stats' = r.user_stats
             /\ group_sent' = IF r.outcome = "ended"
                              THEN GroupSend("battle_ended", r.winner)
                              ELSE group_sent
             /\ hist' = [hist EXCEPT !.winner_writes = @ + 1]
             /\ session' = [session EXCEPT ![s].pc =
                              IF r.outcome = "ended" THEN "idle" ELSE "crashed"]
    /\ UNCHANGED <<participants, submissions, now, timer, group, judge, requests>>

\* ---- submission (receive "submit": _handle_submission, _run_and_score) ----
Verdicts == {"accepted", "wrong_answer"}

\* selectors.has_user_solved_problem
has_user_solved_problem(subs, u, p) ==
    \E r \in BagToSet(subs) : r.user = u /\ r.problem = p /\ r.status = "accepted"

\* score_battle_submission, lines 263-268
PointsFor(verdict, already_solved) ==
    IF verdict = "accepted" /\ ~already_solved THEN PROBLEM_POINTS ELSE 0

\* _run_and_score, lines 310-320: load the battle; refuse unless it is active.
\* A refusal is sent to the client as an error result.
_handle_submission(s, p) ==
    /\ session[s].pc = "idle"
    /\ hist' = [hist EXCEPT !.submits = @ + 1]
    /\ session' = [session EXCEPT ![s].problem = IF battle.status = "active" THEN p ELSE NoProblem,
                                  ![s].pc = IF battle.status = "active" THEN "s_judge" ELSE "idle"]
    /\ UNCHANGED <<dbvars, now, timer, group, group_sent, judge, requests>>

\* The sandbox's exception is stored as a failed submission.
JudgeAndLookup_RecordsError(s) ==
    /\ session[s].pc = "s_judge"
    /\ \/ /\ \E v \in Verdicts :
               session' = [session EXCEPT
                   ![s].verdict = v,
                   ![s].points = PointsFor(v, has_user_solved_problem(
                                     submissions, session[s].user, session[s].problem)),
                   ![s].pc = "s_txn"]
          /\ UNCHANGED submissions
       \/ /\ session' = [session EXCEPT ![s].pc = "idle", ![s].problem = NoProblem]
          /\ submissions' = submissions (+) SetToBag({[user |-> session[s].user,
                                                        problem |-> session[s].problem,
                                                        status |-> "wrong_answer",
                                                        points_earned |-> 0]})
    /\ UNCHANGED <<battle, participants, user_stats, now, timer, group, group_sent,
                   hist, judge, requests>>

\* _run_and_score, lines 322-333, then score_battle_submission, lines 253-268:
\* the sandbox returns a verdict or raises; for an accepted verdict the prior
\* accepted submissions of the user are looked up.
JudgeAndLookup(s) ==
    /\ session[s].pc = "s_judge"
    /\ \/ \E v \in Verdicts :
            session' = [session EXCEPT
                ![s].verdict = v,
                ![s].points = PointsFor(v, has_user_solved_problem(
                                  submissions, session[s].user, session[s].problem)),
                ![s].pc = "s_txn"]
       \/ session' = [session EXCEPT ![s].pc = "idle", ![s].problem = NoProblem]
    /\ UNCHANGED <<dbvars, now, timer, group, group_sent, hist, judge, requests>>

\* score_battle_submission, lines 270-289: the atomic block.
ScoreTransaction(s) ==
    /\ session[s].pc = "s_txn"
    /\ submissions' = submissions (+) SetToBag({[user |-> session[s].user,
                                                  problem |-> session[s].problem,
                                                  status |-> session[s].verdict,
                                                  points_earned |-> session[s].points]})
    /\ participants' =
         IF session[s].points > 0
         THEN [participants EXCEPT
                 ![session[s].user].score = @ + session[s].points,
                 ![session[s].user].problems_solved =
                     @ + (IF session[s].verdict = "accepted" THEN 1 ELSE 0)]
         ELSE participants
    /\ session' = [session EXCEPT ![s].pc = "s_bcast"]
    /\ UNCHANGED <<battle, user_stats, now, timer, group, group_sent, hist, judge, requests>>

\* A scoreboard built from the rows as they were before the submission's
\* score update.
_broadcast_scoreboard_Stale(s) ==
    /\ session[s].pc = "s_bcast"
    /\ group_sent' = GroupSend("scoreboard_update",
         <<participants[Challenger].score -
             (IF session[s].user = Challenger THEN session[s].points ELSE 0),
           participants[Opponent].score -
             (IF session[s].user = Opponent THEN session[s].points ELSE 0)>>)
    /\ session' = [session EXCEPT
                     ![s].pc = IF session[s].verdict = "accepted" THEN "s_check" ELSE "idle",
                     ![s].problem = IF session[s].verdict = "accepted" THEN @ ELSE NoProblem,
                     ![s].verdict = IF @ = "accepted" THEN @ ELSE "none",
                     ![s].points = IF session[s].verdict = "accepted" THEN @ ELSE 0]
    /\ UNCHANGED <<dbvars, now, timer, group, hist, judge, requests>>

\* _broadcast_scoreboard: reads the participant rows and publishes them.
_broadcast_scoreboard(s) ==
    /\ session[s].pc = "s_bcast"
    /\ group_sent' = GroupSend("scoreboard_update",
                               <<participants[Challenger].score,
                                 participants[Opponent].score>>)
    /\ session' = [session EXCEPT
                     ![s].pc = IF session[s].verdict = "accepted" THEN "s_check" ELSE "idle",
                     ![s].problem = IF session[s].verdict = "accepted" THEN @ ELSE NoProblem,
                     ![s].verdict = IF @ = "accepted" THEN @ ELSE "none",
                     ![s].points = IF session[s].verdict = "accepted" THEN @ ELSE 0]
    /\ UNCHANGED <<dbvars, now, timer, group, hist, judge, requests>>

\* _check_and_auto_end, lines 391-398: distinct problems with an accepted row.
solved_count(subs) ==
    Cardinality({r.problem : r \in {x \in BagToSet(subs) : x.status = "accepted"}})

\* _check_and_auto_end, lines 387-404: whether end_battle is to be called.
ShouldAutoEnd(subs, b) ==
    /\ NProblems # 0
    /\ solved_count(subs) >= NProblems
    /\ b.status = "active"

\* _check_and_auto_end; without an end the result frame is sent to the client.
_check_and_auto_end(s) ==
    /\ session[s].pc = "s_check"
    /\ session' = [session EXCEPT ![s] =
                     IF ShouldAutoEnd(submissions, battle)
                     THEN [@ EXCEPT !.pc = "s_end", !.bstatus = battle.status]
                     ELSE [@ EXCEPT !.pc = "idle", !.problem = NoProblem,
                                    !.verdict = "none", !.points = 0]]
    /\ UNCHANGED <<dbvars, now, timer, group, group_sent, hist, judge, requests>>

\* _check_and_auto_end, line 405: end_battle(fresh); an exception leaves
\* score_battle_submission, _run_and_score and the consumer.
AutoEndBattle(s) ==
    /\ session[s].pc = "s_end"
    /\ \E ranked \in order_by(participants) :
         LET r == end_battle(session[s].bstatus, ranked)
         IN  /\ battle' = r.battle
             /\ user_stats' = r.user_stats
             /\ group_sent' = IF r.outcome = "ended"
                              THEN GroupSend("battle_ended", r.winner)
                              ELSE group_sent
             /\ hist' = EndedHist(r)
             /\ session' = [session EXCEPT ![s] =
                              [@ EXCEPT !.pc = IF r.outcome = "raised" THEN "crashed" ELSE "idle",
                                        !.problem = NoProblem, !.verdict = "none",
                                        !.points = 0, !.bstatus = "none"]]
    /\ UNCHANGED <<participants, submissions, now, timer, group, judge, requests>>

\* ---- staleness sweep (send_battle_request, lines 55-86) -------------------
SweepRow(b, t) ==
    LET b1 == IF b.status = "waiting" /\ b.created_at < t - STALE_WAITING_MINUTES
              THEN [b EXCEPT !.status = "cancelled"] ELSE b
        b2 == IF b1.status = "active" /\ b1.ends_at # NoTime /\ b1.ends_at < t
              THEN [b1 EXCEPT !.status = "completed"] ELSE b1
        b3 == IF /\ b2.status = "active" /\ b2.started_at # NoTime
                 /\ b2.started_at < t - (DURATION_MINUTES + DURATION_BUFFER_MINUTES)
              THEN [b2 EXCEPT !.status = "completed"] ELSE b2
        b4 == IF /\ b3.status = "active" /\ b3.started_at = NoTime
                 /\ b3.created_at < t - (DURATION_MINUTES + DURATION_BUFFER_MINUTES)
              THEN [b3 EXCEPT !.status = "cancelled"] ELSE b3
    IN  b4

\* send_battle_request by some user: the sweep is all it does to this battle.
send_battle_request ==
    /\ battle' = SweepRow(battle, now)
    /\ battle' # battle
    /\ hist' = [hist EXCEPT !.completions =
                  IF battle'.status = "completed" THEN @ + 1 ELSE @]
    /\ UNCHANGED <<participants, submissions, user_stats, now, session, timer,
                   group, group_sent, judge, requests>>

\* ---- the clock -----------------------------------------------------------
AdvanceClock ==
    /\ now + ClockStep <= MaxNow
    /\ now' = now + ClockStep
    /\ UNCHANGED <<dbvars, session, timer, group, group_sent, hist, judge, requests>>

Next ==
    \/ \E s \in Sessions, u \in Participants : Connect(s, u)
    \/ \E s \in Sessions : _mark_connected(s)
    \/ \E s \in Sessions : _both_connected(s)
    \/ \E s \in Sessions : _try_activate_battle(s)
    \/ \E s \in Sessions : StartTimerAndBroadcast(s)
    \/ \E s \in Sessions : RefetchAndSend(s)
    \/ \E s \in Sessions : disconnect(s)
    \/ \E s \in Sessions : TimerFetch(s)
    \/ \E s \in Sessions : TimerTick(s)
    \/ \E s \in Sessions : TimerEndBattle(s)
    \/ \E s \in Sessions : _handle_request_end(s)
    \/ \E s \in Sessions : EndSyncFromCompleted(s)
    \/ \E s \in Sessions, p \in Problems :
          hist.submits < MaxSubmits /\ _handle_submission(s, p)
    \/ \E s \in Sessions : JudgeAndLookup(s)
    \/ \E s \in Sessions : ScoreTransaction(s)
    \/ \E s \in Sessions : _broadcast_scoreboard(s)
    \/ \E s \in Sessions : _check_and_auto_end(s)
    \/ \E s \in Sessions : AutoEndBattle(s)
    \/ send_battle_request
    \/ AdvanceClock

Spec == Init /\ [][Next]_vars

\* ---- battle requests (send_battle_request, respond_to_battle_request) -----
\* The Battle row before any request was accepted: there is none.
NoBattle == [status |-> "none", winner |-> NoUser, started_at |-> NoTime,
             ends_at |-> NoTime, ended_at |-> NoTime, created_at |-> 0]

\* _create_battle: the new Battle row and its two BattleParticipant rows.
NewBattle(t) == [NoBattle EXCEPT !.status = "waiting", !.created_at = t]
NewParticipants ==
    [u \in Participants |-> [score |-> 0, problems_solved |-> 0, is_connected |-> FALSE]]

\* send_battle_request, lines 49-53: pending requests past their expiry.
ExpireStale(rows, t) ==
    [i \in DOMAIN rows |->
       IF rows[i].status = "pending" /\ rows[i].expires_at < t
       THEN [rows[i] EXCEPT !.status = "expired"] ELSE rows[i]]

\* send_battle_request, lines 88-113: the checks that raise ValueError.
SendRefused(rows, b) ==
    \/ \E i \in DOMAIN rows : rows[i].status = "pending"
    \/ b.status \in {"waiting", "active"}

\* send_battle_request, lines 47-86: expire the stale requests, sweep the
\* stale battles.
SendSweep(c) ==
    /\ requests.callers[c].pc = "idle"
    /\ Len(requests.rows) < MaxRequests
    /\ requests' = [requests EXCEPT !.rows = ExpireStale(@, now),
                                    !.callers[c].pc = "q_check"]
    /\ battle' = SweepRow(battle, now)
    /\ hist' = [hist EXCEPT !.completions =
                  IF battle'.status = "completed" /\ battle.status # "completed"
                  THEN @ + 1 ELSE @]
    /\ UNCHANGED <<participants, submissions, user_stats, now, session, timer,
                   group, group_sent, judge>>

\* send_battle_request, lines 88-113: raise when a pending request of the
\* pair exists or one of the two users is in an open battle.
SendCheck(c) ==
    /\ requests.callers[c].pc = "q_check"
    /\ requests' = [requests EXCEPT !.callers[c].pc =
                      IF SendRefused(requests.rows, battle) THEN "idle" ELSE "q_create"]
    /\ UNCHANGED <<dbvars, now, session, timer, group, group_sent, hist, judge>>

\* send_battle_request, lines 115-139: insert the PENDING row.
SendCreate(c) ==
    /\ requests.callers[c].pc = "q_create"
    /\ Len(requests.rows) < MaxRequests
    /\ requests' = [requests EXCEPT
           !.rows = Append(@, [status |-> "pending",
                               expires_at |-> now + REQUEST_EXPIRY_MINUTES,
                               battles |-> 0, challenger |-> Challenger,
                               opponent |-> Opponent]),
           !.callers[c].pc = "idle"]
    /\ UNCHANGED <<dbvars, now, session, timer, group, group_sent, hist, judge>>

\* RespondBattleRequestView.post, lines 93-105: load the request if it is
\* still PENDING (404 otherwise), read accepted from the body.
RespondFetch(c, rid, accepted) ==
    /\ requests.callers[c].pc = "idle"
    /\ rid \in DOMAIN requests.rows
    /\ requests.rows[rid].status = "pending"
    /\ requests' = [requests EXCEPT !.callers[c] =
                      [pc |-> "p_respond", rid |-> rid, accepted |-> accepted,
                       expires_at |-> requests.rows[rid].expires_at]]
    /\ UNCHANGED <<dbvars, now, session, timer, group, group_sent, hist, judge>>

\* respond_to_battle_request, lines 151-176, on the instance loaded before:
\* expired -> EXPIRED and raise; rejected -> REJECTED; accepted -> ACCEPTED
\* and _create_battle in one transaction, which the unique battle_request
\* column of Battle rolls back when the request already has a Battle.
Respond(c) ==
    LET me == requests.callers[c]
        done == [requests EXCEPT !.callers[c] = IdleCaller]
    IN  /\ me.pc = "p_respond"
        /\ IF now > me.expires_at
           THEN /\ requests' = [done EXCEPT !.rows[me.rid].status = "expired"]
                /\ UNCHANGED <<battle, participants>>
           ELSE IF ~me.accepted
           THEN /\ requests' = [done EXCEPT !.rows[me.rid].status = "rejected"]
                /\ UNCHANGED <<battle, participants>>
           ELSE IF requests.rows[me.rid].battles > 0
           THEN /\ requests' = done
                /\ UNCHANGED <<battle, participants>>
           ELSE /\ requests' = [done EXCEPT !.rows[me.rid].status = "accepted",
                                            !.rows[me.rid].battles = @ + 1]
                /\ battle' = NewBattle(now)
                /\ participants' = NewParticipants
        /\ UNCHANGED <<submissions, user_stats, now, session, timer, group,
                       group_sent, hist, judge>>

\* Before the first request: no Battle row, no BattleRequest row.
InitRequest ==
    /\ battle = NoBattle
    /\ participants = NewParticipants
    /\ submissions = EmptyBag
    /\ user_stats = [u \in Participants |->
                       [battles_played |-> 0, battles_won |-> 0, rating |-> 0]]
    /\ now = 0
    /\ session = [s \in Sessions |-> IdleSession]
    /\ timer = [s \in Sessions |-> NoTimer]
    /\ group = {}
    /\ group_sent = [battle_state |-> EmptyBag, timer_tick |-> EmptyBag,
                     scoreboard_update |-> EmptyBag, battle_ended |-> EmptyBag]
    /\ hist = [connects |-> 0, submits |-> 0, end_requests |-> 0, ticks |-> 0,
               activations |-> 0, completions |-> 0, timers_created |-> 0,
               winner_writes |-> 0]
    /\ judge = JudgeIdle
    /\ requests = NoRequests

NextRequest ==
    \/ \E c \in Callers : SendSweep(c)
    \/ \E c \in Callers : SendCheck(c)
    \/ \E c \in Callers : SendCreate(c)
    \/ \E c \in Callers, rid \in 1 .. MaxRequests, accepted \in BOOLEAN :
          RespondFetch(c, rid, accepted)
    \/ \E c \in Callers : Respond(c)
    \/ AdvanceClock

SpecRequest == InitRequest /\ [][NextRequest]_vars

\* ---- battle requests among several users ----------------------------------
\* The users who challenge each other; requests.battles is the Battle table
\* over all of them: one row [challenger, opponent, status, created_at] per
\* Battle that _create_battle inserted.
Users == {Challenger, Opponent, Outsider}

\* send_battle_request, lines 62-65: WAITING battles past the grace window.
SweepBattles(bs, t) ==
    [i \in DOMAIN bs |->
       IF bs[i].status = "waiting" /\ bs[i].created_at < t - STALE_WAITING_MINUTES
       THEN [bs[i] EXCEPT !.status = "cancelled"] ELSE bs[i]]

\* send_battle_request, lines 97-113: Battle rows that are WAITING or ACTIVE
\* with u as challenger or opponent.
InOpenBattle(bs, u) ==
    \E i \in DOMAIN bs : /\ bs[i].status \in {"waiting", "active"}
                         /\ u \in {bs[i].challenger, bs[i].opponent}

\* send_battle_request, lines 88-113: the three checks that raise ValueError.
SendRaises(rows, bs, ch, op) ==
    \/ \E i \in DOMAIN rows : /\ rows[i].status = "pending"
                              /\ rows[i].challenger = ch /\ rows[i].opponent = op
    \/ InOpenBattle(bs, ch)
    \/ InOpenBattle(bs, op)

\* send_battle_request(challenger, opponent), the whole call: the two sweeps
\* are committed whether or not the call then raises.
SendBattleRequest(ch, op) ==
    LET rows == ExpireStale(requests.rows, now)
        bs == SweepBattles(requests.battles, now)
    IN  /\ ch # op
        /\ IF SendRaises(rows, bs, ch, op)
           THEN /\ requests' = [requests EXCEPT !.rows = rows, !.battles = bs]
                /\ requests' # requests
           ELSE /\ Len(rows) < MaxRequests
                /\ requests' = [requests EXCEPT
                      !.rows = Append(rows, [status |-> "pending",
                                             expires_at |-> now + REQUEST_EXPIRY_MINUTES,
                                             battles |-> 0, challenger |-> ch,
                                             opponent |-> op]),
                      !.battles = bs]
        /\ UNCHANGED <<dbvars, now, session, timer, group, group_sent, hist, judge>>

\* RespondBattleRequestView.post with respond_to_battle_request, the whole
\* call by the opponent of PENDING request rid: expired -> EXPIRED; rejected
\* -> REJECTED; accepted -> ACCEPTED and _create_battle inserts a WAITING
\* Battle of the request's two users.
RespondToBattleRequest(rid, accepted) ==
    /\ rid \in DOMAIN requests.rows
    /\ requests.rows[rid].status = "pending"
    /\ LET row == requests.rows[rid]
       IN  requests' =
             IF now > row.expires_at
             THEN [requests EXCEPT !.rows[rid].status = "expired"]
             ELSE IF ~accepted
             THEN [requests EXCEPT !.rows[rid].status = "rejected"]
             ELSE [requests EXCEPT
                     !.rows[rid].status = "accepted",
                     !.rows[rid].battles = @ + 1,
                     !.battles = Append(@, [challenger |-> row.challenger,
                                            opponent |-> row.opponent,
                                            status |-> "waiting",
                                            created_at |-> now])]
    /\ UNCHANGED <<dbvars, now, session, timer, group, group_sent, hist, judge>>

NextMatch ==
    \/ \E ch, op \in Users : SendBattleRequest(ch, op)
    \/ \E rid \in 1 .. MaxRequests, accepted \in BOOLEAN :
          RespondToBattleRequest(rid, accepted)
    \/ AdvanceClock

SpecMatch == InitRequest /\ [][NextMatch]_vars

\* ---- the handshakes, accepted and rejected --------------------------------
NextConnect ==
    \/ \E s \in Sessions, u \in Participants : Connect(s, u)
    \/ \E s \in Sessions, u \in Visitors, found \in BOOLEAN : ConnectRejected(s, u, found)
    \/ \E s \in Sessions : DisconnectRejected(s)
    \/ \E s \in Sessions : _mark_connected(s)
    \/ \E s \in Sessions : _both_connected(s)
    \/ \E s \in Sessions : _try_activate_battle(s)
    \/ \E s \in Sessions : StartTimerAndBroadcast(s)
    \/ \E s \in Sessions : RefetchAndSend(s)
    \/ \E s \in Sessions : disconnect(s)

SpecConnect == Init /\ [][NextConnect]_vars

\* ---- the battle once it is active ----------------------------------------
\* The state Spec reaches when both participants have connected at time 0 and
\* the first connection activated the battle; the second connection belongs
\* to the other participant or, after a reconnect, to the same one.
InitActive ==
    /\ battle = [status |-> "active", winner |-> NoUser, started_at |-> 0,
                 ends_at |-> DURATION_MINUTES, ended_at |-> NoTime, created_at |-> 0]
    /\ participants = [u \in Participants |->
                         [score |-> 0, problems_solved |-> 0, is_connected |-> TRUE]]
    /\ submissions = EmptyBag
    /\ user_stats = [u \in Participants |->
                       [battles_played |-> 0, battles_won |-> 0, rating |-> 0]]
    /\ now = 0
    /\ \E u \in Participants :
         /\ session = [s \in Sessions |->
                         [IdleSession EXCEPT !.pc = "idle", !.snapshot = "active",
                            !.user = IF s = FirstSession THEN Challenger ELSE u]]
         /\ hist = [connects |-> IF u = Challenger THEN 3 ELSE 2,
                    submits |-> 0, end_requests |-> 0, ticks |-> 0,
                    activations |-> 1, completions |-> 0, timers_created |-> 1,
                    winner_writes |-> 0]
    /\ timer = [s \in Sessions |->
                  IF s = FirstSession THEN [NoTimer EXCEPT !.pc = "sleep"] ELSE NoTimer]
    /\ group = Sessions
    /\ group_sent = [battle_state |-> SetToBag({"active"}), timer_tick |-> EmptyBag,
                     scoreboard_update |-> EmptyBag, battle_ended |-> EmptyBag]
    /\ judge = JudgeIdle
    /\ requests = NoRequests


NextActive ==
    \/ \E s \in Sessions, p \in Problems :
          hist.submits < MaxActiveSubmits /\ _handle_submission(s, p)
    \/ \E s \in Sessions : JudgeAndLookup(s)
    \/ \E s \in Sessions : ScoreTransaction(s)
    \/ \E s \in Sessions : _broadcast_scoreboard(s)
    \/ \E s \in Sessions : _check_and_auto_end(s)
    \/ \E s \in Sessions : AutoEndBattle(s)
    \/ \E s \in Sessions : TimerFetch(s)
    \/ \E s \in Sessions : TimerTick(s)
    \/ \E s \in Sessions : TimerEndBattle(s)
    \/ \E s \in Sessions : _handle_request_end(s)
    \/ \E s \in Sessions : EndSyncFromCompleted(s)
    \/ \E s \in Sessions : disconnect(s)
    \/ send_battle_request
    \/ AdvanceClock

SpecActive == InitActive /\ [][NextActive]_vars

\* ---- the active battle left to its countdown and to reconnects ------------
\* connect, lines 41-64, by a participant who comes back to the active
\* battle; any number of times.
Reconnect(s, u) ==
    /\ session[s].pc \in {"closed", "crashed"}
    /\ timer[s].pc \in {"none", "done", "cancelled"}
    /\ battle.status = "active"
    /\ session' = [session EXCEPT ![s] =
                     [IdleSession EXCEPT !.pc = "c_mark", !.user = u,
                                         !.bstatus = battle.status]]
    /\ timer' = [timer EXCEPT ![s] = NoTimer]
    /\ group' = group \cup {s}
    /\ UNCHANGED <<dbvars, now, group_sent, hist, judge, requests>>

NextCountdown ==
    \/ \E s \in Sessions, u \in Participants : Reconnect(s, u)
    \/ \E s \in Sessions : _mark_connected(s)
    \/ \E s \in Sessions : _both_connected(s)
    \/ \E s \in Sessions : _try_activate_battle(s)
    \/ \E s \in Sessions : RefetchAndSend(s)
    \/ \E s \in Sessions : disconnect(s)
    \/ \E s \in Sessions : TimerFetch(s)
    \/ \E s \in Sessions : TimerTick(s)
    \/ \E s \in Sessions : TimerEndBattle(s)
    \/ AdvanceClock

\* The event loop runs every countdown task and every connect handler that
\* can take a step, and time passes; closing a connection is up to the user.
FairCountdown ==
    /\ \A s \in Sessions :
         /\ WF_vars(TimerFetch(s))
         /\ WF_vars(TimerTick(s))
         /\ WF_vars(TimerEndBattle(s))
         /\ WF_vars(_mark_connected(s))
         /\ WF_vars(_both_connected(s))
         /\ WF_vars(_try_activate_battle(s))
         /\ WF_vars(RefetchAndSend(s))
         /\ WF_vars(\E u \in Participants : Reconnect(s, u))
    /\ WF_vars(AdvanceClock)

SpecCountdown == InitActive /\ [][NextCountdown]_vars /\ FairCountdown

\* ---- the sessions and countdown of one server process ----------------------
\* asgiref runs sync_to_async(f) and database_sync_to_async(f) with
\* thread_sensitive=True, their default and the one every call of the
\* consumer uses: all these calls of a process share one thread and run one
\* at a time. _handle_submission, line 295, runs the whole of _run_and_score
\* (battle lookup, sandbox run, scoring, all-solved end) as one such call.
InRunAndScore(s) == session[s].pc \in {"s_judge", "s_txn", "s_bcast", "s_check", "s_end"}
ExecutorIdle == \A s \in Sessions : ~InRunAndScore(s)

\* The calls that need the shared thread, as they run in one process.
ProcessSubmit(s, p) ==
    ExecutorIdle /\ hist.submits < MaxActiveSubmits /\ _handle_submission(s, p)
ProcessTimerFetch(s) == ExecutorIdle /\ TimerFetch(s)
ProcessTimerEndBattle(s) == ExecutorIdle /\ TimerEndBattle(s)
ProcessRequestEnd(s) == ExecutorIdle /\ _handle_request_end(s)
ProcessEndSync(s) == ExecutorIdle /\ EndSyncFromCompleted(s)

NextProcess ==
    \/ \E s \in Sessions, p \in Problems : ProcessSubmit(s, p)
    \/ \E s \in Sessions : JudgeAndLookup(s)
    \/ \E s \in Sessions : ScoreTransaction(s)
    \/ \E s \in Sessions : _broadcast_scoreboard(s)
    \/ \E s \in Sessions : _check_and_auto_end(s)
    \/ \E s \in Sessions : AutoEndBattle(s)
    \/ \E s \in Sessions : ProcessTimerFetch(s)
    \/ \E s \in Sessions : TimerTick(s)
    \/ \E s \in Sessions : ProcessTimerEndBattle(s)
    \/ \E s \in Sessions : ProcessRequestEnd(s)
    \/ \E s \in Sessions : ProcessEndSync(s)
    \/ \E s \in Sessions : disconnect(s)
    \/ AdvanceClock

SpecProcess == InitActive /\ [][NextProcess]_vars

\* ---- the winner computation on given participant rows --------------------
\* An active battle whose two participant rows hold any score and
\* problems_solved, ended by a request_end message.
InitWinner ==
    /\ battle = [status |-> "active", winner |-> NoUser, started_at |-> 0,
                 ends_at |-> DURATION_MINUTES, ended_at |-> NoTime, created_at |-> 0]
    /\ participants \in [Participants ->
          [score : {PROBLEM_POINTS * k : k \in 0 .. MaxScoreUnits},
           problems_solved : 0 .. MaxSolved, is_connected : {TRUE}]]
    /\ submissions = EmptyBag
    /\ user_stats = [u \in Participants |->
                       [battles_played |-> 0, battles_won |-> 0, rating |-> 0]]
    /\ now = 0
    /\ session = [s \in Sessions |->
                    [IdleSession EXCEPT !.pc = "idle", !.snapshot = "active",
                       !.user = IF s = FirstSession THEN Challenger ELSE Opponent]]
    /\ hist = [connects |-> 2, submits |-> 0, end_requests |-> 0, ticks |-> 0,
               activations |-> 1, completions |-> 0, timers_created |-> 1,
               winner_writes |-> 0]
    /\ timer = [s \in Sessions |->
                  IF s = FirstSession THEN [NoTimer EXCEPT !.pc = "sleep"] ELSE NoTimer]
    /\ group = Sessions
    /\ group_sent = [battle_state |-> SetToBag({"active"}), timer_tick |-> EmptyBag,
                     scoreboard_update |-> EmptyBag, battle_ended |-> EmptyBag]
    /\ judge = JudgeIdle
    /\ requests = NoRequests


NextWinner ==
    \/ \E s \in Sessions : _handle_request_end(s)
    \/ \E s \in Sessions : EndSyncFromCompleted(s)

SpecWinner == InitWinner /\ [][NextWinner]_vars

\* ==== the judge ============================================================
\* ---- strings (str.strip, str.splitlines, str.rstrip, "\n".join) -----------
Chars == {"a", " ", "\n"}
Whitespace == {" ", "\n"}
Strings == UNION {[1 .. k -> Chars] : k \in 0 .. MaxStrLen}

RECURSIVE lstrip(_)
lstrip(str) ==
    IF str = <<>> THEN str
    ELSE IF Head(str) \in Whitespace THEN lstrip(Tail(str)) ELSE str

RECURSIVE rstrip(_)
rstrip(str) ==
    IF str = <<>> THEN str
    ELSE IF str[Len(str)] \in Whitespace THEN rstrip(SubSeq(str, 1, Len(str) - 1))
    ELSE str

strip(str) == lstrip(rstrip(str))

\* str.splitlines(): a final line break opens no further line.
RECURSIVE splitlines(_)
splitlines(str) ==
    IF str = <<>> THEN <<>>
    ELSE LET breaks == {i \in 1 .. Len(str) : str[i] = "\n"}
         IN  IF breaks = {} THEN <<str>>
             ELSE LET i == CHOOSE b \in breaks : \A c \in breaks : b <= c
                  IN  <<SubSeq(str, 1, i - 1)>> \o splitlines(SubSeq(str, i + 1, Len(str)))

RECURSIVE join(_)
join(lines) ==
    IF lines = <<>> THEN <<>>
    ELSE IF Len(lines) = 1 THEN lines[1]
    ELSE lines[1] \o <<"\n">> \o join(Tail(lines))

\* run, lines 265-270: "\n".join(line.rstrip() for line in s.splitlines()).strip()
Normalize(str) ==
    LET lines == splitlines(str)
    IN  strip(join([i \in 1 .. Len(lines) |-> rstrip(lines[i])]))

\* ---- LocalSandbox.execute -------------------------------------------------
TimeLimits == {500 * k : k \in 1 .. MaxLimitHalfSeconds}
RunTimes == {500 * k : k \in 1 .. MaxRunHalfSeconds}
\* subprocess returncode: 0, a non-zero exit, or -1 for a child ended by
\* signal 1.
ReturnCodes == {0, 1, -1}

\* What happens to one execution once its scratch directory exists:
\* kind, the return code of the compiler or program, the wall time t of the
\* program, whether stderr holds "not found"/"Unsupported" (nf) or
\* "Time Limit Exceeded" (tle), the program's stdout and the test case's
\* expected_output.
Quiet(kinds, rcs) ==
    [kind : kinds, rc : rcs, t : {0}, nf : {FALSE}, tle : {FALSE},
     stdout : {<<>>}, expected : {<<>>}]
Events ==
    Quiet({"compiler_missing", "compile_timeout", "runtime_missing"}, {1})
    \cup [kind : {"compile_failed"}, rc : ReturnCodes \ {0}, t : {0},
          nf : BOOLEAN, tle : BOOLEAN, stdout : {<<>>}, expected : {<<>>}]
    \cup [kind : {"exception"}, rc : {1}, t : {0},
          nf : BOOLEAN, tle : BOOLEAN, stdout : {<<>>}, expected : {<<>>}]
    \cup [kind : {"ran"}, rc : ReturnCodes \ {0}, t : RunTimes,
          nf : BOOLEAN, tle : BOOLEAN, stdout : {<<>>}, expected : {<<>>}]
    \cup [kind : {"ran"}, rc : {0}, t : RunTimes,
          nf : BOOLEAN, tle : BOOLEAN, stdout : Strings, expected : Strings]

\* subprocess.run(..., timeout=self.timeout) raises TimeoutExpired.
TimedOut(ev, timeout) == ev.kind = "ran" /\ ev.t > timeout * 1000

Returned(stdout, nf, tle, exit_code, ms) ==
    [stdout |-> stdout, nf |-> nf, tle |-> tle, exit_code |-> exit_code,
     execution_time_ms |-> ms]

\* The dict execute returns for an unsupported language (lines 71-79).
UnsupportedResult == Returned(<<>>, TRUE, FALSE, 1, 0)

\* The dict execute returns, lines 95-188.
ExecResult(ev, timeout) ==
    CASE ev.kind = "compile_failed"   -> Returned(<<>>, ev.nf, ev.tle, ev.rc, 0)
      [] ev.kind = "compiler_missing" -> Returned(<<>>, TRUE, FALSE, 1, 0)
      [] ev.kind = "compile_timeout"  -> Returned(<<>>, FALSE, FALSE, 1, COMPILE_TIMEOUT_MS)
      [] ev.kind = "runtime_missing"  -> Returned(<<>>, TRUE, FALSE, 1, 0)
      [] ev.kind = "exception"        -> Returned(<<>>, ev.nf, ev.tle, 1, 0)
      [] ev.kind = "ran" /\ TimedOut(ev, timeout)
                                      -> Returned(<<>>, FALSE, TRUE, -1, timeout * 1000)
      [] OTHER                        -> Returned(strip(ev.stdout), ev.nf, ev.tle, ev.rc, ev.t)

\* ---- LocalSandbox.run -----------------------------------------------------
\* line 218
EnforcedTimeout(time_limit_ms) == Max(1, (time_limit_ms \div 1000) + TIMEOUT_BUFFER)

\* run, lines 234-279: the verdict of one test case, "pass" when it goes on.
Classify(res, expected) ==
    IF res.exit_code # 0 /\ res.nf THEN "compile_error"
    ELSE IF res.tle \/ res.exit_code = -1 THEN "time_limit"
    ELSE IF res.exit_code # 0 THEN "runtime_error"
    ELSE IF Normalize(res.stdout) # Normalize(expected) THEN "wrong_answer"
    ELSE "pass"

\* What the run has seen of one executed test case.
LogEntry(ev, res, timeout, verdict) ==
    [kind |-> ev.kind, rc |-> ev.rc, t |-> ev.t, timed_out |-> TimedOut(ev, timeout),
     nf |-> res.nf, tle |-> res.tle, exit_code |-> res.exit_code,
     ms |-> res.execution_time_ms,
     exact |-> (ev.stdout = ev.expected),
     equal |-> (Normalize(strip(ev.stdout)) = Normalize(ev.expected)),
     verdict |-> verdict]

UnsupportedEvent == [kind |-> "unsupported", rc |-> 1, t |-> 0, nf |-> TRUE,
                     tle |-> FALSE, stdout |-> <<>>, expected |-> <<>>]

\* run, lines 216-220: set the timeout from the problem's limit, start the loop.
LocalRunBegin ==
    /\ judge.pc = "idle"
    /\ \E limit \in TimeLimits, n \in 0 .. MaxCases, sup \in BOOLEAN :
         judge' = [judge EXCEPT !.pc = "loop", !.backend = "local", !.supported = sup,
                                !.time_limit_ms = limit, !.n_cases = n,
                                !.timeout = EnforcedTimeout(limit)]
    /\ UNCHANGED <<dbvars, now, session, timer, group, group_sent, hist, requests>>

\* The body of run's loop for the dict res of test case Len(log) + 1; the
\* finally of line 290 restores the timeout when run returns.
LoopBody(j, ev, res) ==
    LET verdict == Classify(res, ev.expected)
        total == j.total_ms + res.execution_time_ms
        log == Append(j.log, LogEntry(ev, res, j.timeout, verdict))
    IN  IF verdict = "pass"
        THEN [j EXCEPT !.pc = "loop", !.log = log, !.total_ms = total]
        ELSE [j EXCEPT !.pc = "done", !.log = log, !.total_ms = total,
                       !.timeout = DEFAULT_TIMEOUT,
                       !.result = [status |-> verdict, execution_time_ms |-> total,
                                   failed_case |-> Len(log)]]

\* execute, lines 71-93: an unsupported language returns at once, otherwise
\* the scratch directory is created and the code written into it.
LocalExecuteEnter ==
    /\ judge.pc = "loop" /\ judge.backend = "local"
    /\ Len(judge.log) < judge.n_cases
    /\ judge' = IF judge.supported
                THEN [judge EXCEPT !.pc = "exec", !.scratch = @ + 1]
                ELSE LoopBody(judge, UnsupportedEvent, UnsupportedResult)
    /\ UNCHANGED <<dbvars, now, session, timer, group, group_sent, hist, requests>>

\* execute, lines 95-194: compile and run, return the dict; the finally
\* removes the scratch directory; then the rest of run's loop body.
LocalExecuteReturn ==
    /\ judge.pc = "exec" /\ judge.backend = "local"
    /\ \E ev \in Events :
         judge' = LoopBody([judge EXCEPT !.scratch = @ - 1], ev,
                           ExecResult(ev, judge.timeout))
    /\ UNCHANGED <<dbvars, now, session, timer, group, group_sent, hist, requests>>

\* run, lines 281-290: every test case passed.
LocalRunReturn ==
    /\ judge.pc = "loop" /\ judge.backend = "local"
    /\ Len(judge.log) = judge.n_cases
    /\ judge' = [judge EXCEPT !.pc = "done", !.timeout = DEFAULT_TIMEOUT,
                              !.result = [status |-> "accepted",
                                          execution_time_ms |-> judge.total_ms,
                                          failed_case |-> NoCase]]
    /\ UNCHANGED <<dbvars, now, session, timer, group, group_sent, hist, requests>>

\* ---- DockerSandbox.execute and tasks.execute_submission --------------------
\* What container.wait and the reads after it produce: a finished container
\* with its StatusCode, or an exception (a wait that timed out, an OOM kill,
\* any other error).
DockerEvents ==
    [kind : {"ran"}, rc : {0, 1}, t : RunTimes, nf : {FALSE}, tle : BOOLEAN,
     stdout : Strings, expected : Strings]
    \cup Quiet({"wait_timeout", "oom", "error"}, {1})

\* execute, lines 187-200: the exception an event leaves execute with.
DockerRaises(kind) ==
    CASE kind = "wait_timeout" -> "TimeLimitExceeded"
      [] kind = "oom"          -> "MemoryLimitExceeded"
      [] kind = "ran"          -> "none"
      [] OTHER                 -> "CodeExecutionError"

\* execute_submission, lines 61-68: the task starts its loop over the cases.
TaskBegin ==
    /\ judge.pc = "idle"
    /\ \E n \in 0 .. MaxCases, sup \in BOOLEAN :
         judge' = [judge EXCEPT !.pc = "loop", !.backend = "task", !.supported = sup,
                                !.n_cases = n]
    /\ UNCHANGED <<dbvars, now, session, timer, group, group_sent, hist, requests>>

\* execute_submission, lines 120-131: an exception out of execute marks the
\* submission INTERNAL_ERROR.
TaskFailed(j, exc) ==
    [j EXCEPT !.pc = "done", !.raised = exc,
              !.result = [status |-> "internal_error", execution_time_ms |-> 0,
                          failed_case |-> NoCase]]

\* execute_submission, lines 76-98: the loop body for one returned dict,
\* judged on stripped output; "compilation" in stderr is flag tle of the event.
TaskVerdict(ev) ==
    IF ev.rc # 0 THEN (IF ev.tle THEN "compile_error" ELSE "runtime_error")
    ELSE IF strip(strip(ev.stdout)) = strip(ev.expected) THEN "pass"
    ELSE "wrong_answer"

\* execute_submission, lines 99-110: what is saved on the submission when
\* the loop ends: execution_time_ms = max_time, test_cases_passed = passed.
TaskLoopBody(j, ev) ==
    LET verdict == TaskVerdict(ev)
        entry == [kind |-> ev.kind, rc |-> ev.rc, t |-> ev.t, timed_out |-> FALSE,
                  nf |-> FALSE, tle |-> ev.tle, exit_code |-> ev.rc, ms |-> ev.t,
                  exact |-> (ev.stdout = ev.expected),
                  equal |-> (strip(strip(ev.stdout)) = strip(ev.expected)),
                  verdict |-> verdict]
        log == Append(j.log, entry)
        max_time == Max(j.max_ms, ev.t)
    IN  IF verdict = "pass"
        THEN [j EXCEPT !.pc = "loop", !.log = log, !.max_ms = max_time,
                       !.total_ms = @ + ev.t, !.passed = @ + 1]
        ELSE [j EXCEPT !.pc = "done", !.log = log, !.max_ms = max_time,
                       !.total_ms = @ + ev.t,
                       !.result = [status |-> verdict, execution_time_ms |-> max_time,
                                   failed_case |-> NoCase]]

\* execute, lines 97-122: an unsupported language raises before anything is
\* created; otherwise the scratch directory is made and the files written.
DockerExecuteEnter ==
    /\ judge.pc = "loop" /\ judge.backend = "task"
    /\ Len(judge.log) < judge.n_cases
    /\ judge' = IF judge.supported
                THEN [judge EXCEPT !.pc = "d_dir", !.scratch = @ + 1]
                ELSE TaskFailed(judge, "CodeExecutionError")
    /\ UNCHANGED <<dbvars, now, session, timer, group, group_sent, hist, requests>>

\* execute, lines 127-154 and 187-213: client.containers.run(detach=True)
\* creates the container and then starts it. It returns the container, or
\* raises before creating one, or raises from the start with the container
\* created: then execute holds no handle, and its finally removes only the
\* scratch directory.
DockerContainersRun ==
    /\ judge.pc = "d_dir" /\ judge.backend = "task"
    /\ \/ judge' = [judge EXCEPT !.pc = "d_wait", !.containers = @ + 1,
                                 !.handle = TRUE]
       \/ judge' = TaskFailed([judge EXCEPT !.scratch = @ - 1], "CodeExecutionError")
       \/ judge' = TaskFailed([judge EXCEPT !.scratch = @ - 1, !.containers = @ + 1],
                              "CodeExecutionError")
    /\ UNCHANGED <<dbvars, now, session, timer, group, group_sent, hist, requests>>

\* execute, lines 156-213: wait, read the logs, return the dict or raise; the
\* finally removes the container it holds and the scratch directory.
DockerWaitReturn ==
    /\ judge.pc = "d_wait" /\ judge.backend = "task"
    /\ \E ev \in DockerEvents :
         LET cleaned == [judge EXCEPT !.scratch = @ - 1, !.handle = FALSE,
                                      !.containers = IF judge.handle THEN @ - 1 ELSE @]
         IN  judge' = IF DockerRaises(ev.kind) = "none"
                      THEN TaskLoopBody(cleaned, ev)
                      ELSE TaskFailed(cleaned, DockerRaises(ev.kind))
    /\ UNCHANGED <<dbvars, now, session, timer, group, group_sent, hist, requests>>

\* execute_submission, lines 99-110: the loop ended without a break.
TaskReturn ==
    /\ judge.pc = "loop" /\ judge.backend = "task"
    /\ Len(judge.log) = judge.n_cases
    /\ judge' = [judge EXCEPT !.pc = "done",
                   !.result = [status |-> IF judge.passed = judge.n_cases
                                          THEN "accepted" ELSE "running",
                               execution_time_ms |-> judge.max_ms,
                               failed_case |-> NoCase]]
    /\ UNCHANGED <<dbvars, now, session, timer, group, group_sent, hist, requests>>

\* ---- the judge on its own --------------------------------------------------
NextJudge ==
    \/ LocalRunBegin
    \/ LocalExecuteEnter
    \/ LocalExecuteReturn
    \/ LocalRunReturn
    \/ TaskBegin
    \/ DockerExecuteEnter
    \/ DockerContainersRun
    \/ DockerWaitReturn
    \/ TaskReturn

SpecJudge == Init /\ [][NextJudge]_vars

\* ---- the output comparison of run on its own ------------------------------
\* run, lines 264-289, for one test case whose program exited with code 0:
\* judge.stdout is what the program printed and judge.expected the test
\* case's expected_output; _execute returns stdout.strip() (line 154), then
\* both are normalized and compared.
CompareOutput ==
    /\ judge.pc = "compare"
    /\ judge' = [judge EXCEPT !.pc = "compared",
                   !.result = [status |-> IF Normalize(strip(judge.stdout)) # Normalize(judge.expected)
                                          THEN "wrong_answer" ELSE "accepted",
                               execution_time_ms |-> 0,
                               failed_case |-> IF Normalize(strip(judge.stdout)) # Normalize(judge.expected)
                                               THEN 1 ELSE NoCase]]
    /\ UNCHANGED <<dbvars, now, session, timer, group, group_sent, hist, requests>>

\* A run that has executed its only test case, for every pair of strings.
InitCompare ==
    /\ battle = NoBattle
    /\ participants = NewParticipants
    /\ submissions = EmptyBag
    /\ user_stats = [u \in Participants |->
                       [battles_played |-> 0, battles_won |-> 0, rating |-> 0]]
    /\ now = 0
    /\ session = [s \in Sessions |-> IdleSession]
    /\ timer = [s \in Sessions |-> NoTimer]
    /\ group = {}
    /\ group_sent = [battle_state |-> EmptyBag, timer_tick |-> EmptyBag,
                     scoreboard_update |-> EmptyBag, battle_ended |-> EmptyBag]
    /\ hist = [connects |-> 0, submits |-> 0, end_requests |-> 0, ticks |-> 0,
               activations |-> 0, completions |-> 0, timers_created |-> 0,
               winner_writes |-> 0]
    /\ requests = NoRequests
    /\ \E out \in Strings, exp \in Strings :
         judge = [JudgeIdle EXCEPT !.pc = "compare", !.backend = "local",
                                   !.n_cases = 1, !.stdout = out, !.expected = exp]

NextCompare == CompareOutput

SpecCompare == InitCompare /\ [][NextCompare]_vars

\* ---- a submission from its creation to its final status --------------------
\* judge.sub_status is Submission.status ("none": no row yet), judge.queued
\* whether a judge.execute_submission message is in the broker's queue,
\* judge.retries the task's request.retries.

\* SubmissionService.create_and_judge: insert the PENDING row, then
\* execute_submission.delay(id). delay publishes the message, or raises when
\* the broker cannot be reached: the row has been committed by then.
create_and_judge ==
    /\ judge.pc = "idle" /\ judge.sub_status = "none"
    /\ \/ judge' = [judge EXCEPT !.sub_status = "pending", !.queued = TRUE]
       \/ judge' = [judge EXCEPT !.sub_status = "pending"]
    /\ UNCHANGED <<dbvars, now, session, timer, group, group_sent, hist, requests>>

\* execute_submission, lines 41-68: a worker takes the message, saves
\* RUNNING, constructs DockerSandbox (ServiceUnavailable when the Docker
\* daemon cannot be reached) and starts the loop; a retry judges the same
\* test cases and language.
ExecuteSubmissionStart ==
    /\ judge.pc = "idle" /\ judge.queued
    /\ \E n \in 0 .. MaxCases, sup \in BOOLEAN :
         /\ judge.retries > 0 => (n = judge.n_cases /\ sup = judge.supported)
         /\ LET j == [judge EXCEPT !.queued = FALSE, !.sub_status = "running",
                                   !.backend = "task", !.n_cases = n,
                                   !.supported = sup]
            IN  \/ judge' = [j EXCEPT !.pc = "loop"]
                \/ judge' = TaskFailed(j, "ServiceUnavailable")
    /\ UNCHANGED <<dbvars, now, session, timer, group, group_sent, hist, requests>>

\* self.retry(exc=exc), line 131: a new message with retries + 1 while
\* request.retries < max_retries, the exception itself afterwards.
Retry(j) ==
    IF j.retries < max_retries
    THEN [j EXCEPT !.pc = "idle", !.queued = TRUE, !.retries = @ + 1,
                   !.log = <<>>, !.total_ms = 0, !.max_ms = 0, !.passed = 0,
                   !.result = NoResult, !.raised = "none"]
    ELSE [j EXCEPT !.pc = "saved"]

\* execute_submission, lines 104-131: submission.save() with the verdict of
\* the loop, or, after an exception, with INTERNAL_ERROR followed by retry.
ExecuteSubmissionSave ==
    /\ judge.pc = "done" /\ judge.backend = "task" /\ judge.sub_status = "running"
    /\ judge' = IF judge.raised = "none"
                THEN [judge EXCEPT !.pc = "saved", !.sub_status = judge.result.status]
                ELSE Retry([judge EXCEPT !.sub_status = "internal_error"])
    /\ UNCHANGED <<dbvars, now, session, timer, group, group_sent, hist, requests>>

NextSubmit ==
    \/ create_and_judge
    \/ ExecuteSubmissionStart
    \/ DockerExecuteEnter
    \/ DockerContainersRun
    \/ DockerWaitReturn
    \/ TaskReturn
    \/ ExecuteSubmissionSave

\* The worker runs a queued task and every step of a running one.
FairSubmit ==
    /\ WF_vars(ExecuteSubmissionStart)
    /\ WF_vars(DockerExecuteEnter)
    /\ WF_vars(DockerContainersRun)
    /\ WF_vars(DockerWaitReturn)
    /\ WF_vars(TaskReturn)
    /\ WF_vars(ExecuteSubmissionSave)

SpecSubmit == Init /\ [][NextSubmit]_vars /\ FairSubmit

\* ==== claims ===============================================================
SentCount(type) == BagCardinality(group_sent[type])
ConnectPcs == {"c_count", "c_activate", "c_start", "c_refetch"}
BothMarked == \A u \in Participants : participants[u].is_connected
EndLogicInFlight ==
    \/ \E s \in Sessions : session[s].pc \in {"e_sync", "s_end"}
    \/ \E s \in Sessions : timer[s].pc = "end"

\* C1: from a WAITING battle, however the two connect handlers interleave,
\* the conditional update WAITING->ACTIVE succeeds at most once, and exactly
\* once when both handlers have run and the battle was not cancelled: one
\* activation broadcast, one countdown task, started_at/ends_at written once
\* with ends_at = started_at + 30 min.
C1_ExactlyOneActivation ==
    /\ hist.activations <= 1
    /\ hist.timers_created <= hist.activations
    /\ SentCount("battle_state") = hist.timers_created
    /\ (battle.started_at # NoTime) <=> (hist.activations = 1)
    /\ battle.started_at # NoTime =>
          battle.ends_at = battle.started_at + DURATION_MINUTES
    /\ ( /\ BothMarked
         /\ \A s \in Sessions : session[s].pc \notin ConnectPcs
         /\ battle.status # "cancelled" )
       => /\ hist.activations = 1
          /\ hist.timers_created = 1
          /\ SentCount("battle_state") = 1

\* Both handlers found both participants connected; one won the update and is
\* about to start the countdown, the other lost it.
C1_Witness ==
    /\ hist.activations = 1
    /\ \E s1, s2 \in Sessions :
         session[s1].pc = "c_start" /\ session[s2].pc = "c_refetch"

\* C2: once an end trigger (timeout, all-solved, request_end) has run its end
\* logic on an ACTIVE battle, exactly one COMPLETED write was committed and
\* exactly one battle_ended was published to the group.
C2_ExactlyOneBattleEnded ==
    (battle.status = "completed" /\ hist.winner_writes >= 1 /\ ~EndLogicInFlight)
    => (hist.completions = 1 /\ SentCount("battle_ended") = 1)

\* C3: for every user and problem at most one submission earned points, and
\* the user's score was raised at most once per solved problem.
AcceptedRow(u, p) ==
    [user |-> u, problem |-> p, status |-> "accepted", points_earned |-> PROBLEM_POINTS]
C3_PointsAtMostOnce ==
    \A u \in Participants :
       /\ \A p \in Problems : CopiesIn(AcceptedRow(u, p), submissions) <= 1
       /\ participants[u].score <=
            PROBLEM_POINTS *
              Cardinality({p \in Problems : has_user_solved_problem(submissions, u, p)})

\* C4: the status of the battle changes only along WAITING->ACTIVE,
\* ACTIVE->COMPLETED, WAITING->CANCELLED and ACTIVE->CANCELLED.
AllowedTransitions ==
    {<<"waiting", "active">>, <<"active", "completed">>,
     <<"waiting", "cancelled">>, <<"active", "cancelled">>}
C4_MonotonicStatus ==
    [][battle'.status # battle.status
         => <<battle.status, battle'.status>> \in AllowedTransitions]_vars

\* A reconnecting session tried to activate a battle that is already COMPLETED.
C4_Witness ==
    battle.status = "completed" /\ \E s \in Sessions : session[s].pc = "c_refetch"

\* C5: a step of the end logic (end_battle by the countdown or by the
\* all-solved check, or the receipt of request_end) taken while the stored
\* battle is COMPLETED changes neither the battle nor the user statistics,
\* publishes no battle_ended and starts no completion.
EndLogicStep ==
    \/ \E s \in Sessions : timer[s].pc = "end" /\ timer'[s].pc = "done"
    \/ \E s \in Sessions : session[s].pc = "s_end" /\ session'[s].pc # "s_end"
    \/ hist'.end_requests # hist.end_requests
C5_EndOnCompletedIsNoOp ==
    [][(battle.status = "completed" /\ EndLogicStep)
         => /\ UNCHANGED <<battle, participants, user_stats>>
            /\ group_sent'.battle_ended = group_sent.battle_ended
            /\ hist'.completions = hist.completions
            /\ \A s \in Sessions :
                   session'[s].pc = "e_sync" => session[s].pc = "e_sync"]_vars

\* A request_end was received and ran no end logic: the battle had already
\* been completed (by the sweep).
C5_Witness ==
    /\ battle.status = "completed"
    /\ hist.end_requests >= 1
    /\ hist.winner_writes = 0
    /\ \A s \in Sessions : session[s].pc # "e_sync"

\* C6: when the end logic has persisted a winner, a participant is the winner
\* if and only if their score is strictly greater than the other's; with
\* equal scores winner is null.
C6_WinnerIffStrictlyGreater ==
    hist.winner_writes >= 1 =>
      /\ battle.winner \in Participants \cup {NoUser}
      /\ \A u \in Participants :
           (battle.winner = u) <=>
             (\A v \in Participants \ {u} : participants[u].score > participants[v].score)

\* Scores (20, 10): the higher scorer has been persisted as winner.
C6_Witness ==
    /\ hist.winner_writes >= 1
    /\ participants[Challenger].score = 20
    /\ participants[Opponent].score = 10
    /\ battle.winner = Challenger

C8_CompletionPersistsStats ==
    (battle.status = "completed" /\ ~EndLogicInFlight)
    => /\ battle.ended_at # NoTime
       /\ \A u \in Participants : user_stats[u].battles_played = 1
       /\ battle.winner # NoUser =>
            /\ user_stats[battle.winner].battles_won = 1
            /\ user_stats[battle.winner].rating = BATTLE_WIN_POINTS

\* C9: when the all-solved check after an ACCEPTED submission on an ACTIVE
\* battle calls the end logic, that step leaves the battle COMPLETED with
\* the winner computed from the scores.
C9_AllSolvedCompletes ==
    [][\A s \in Sessions :
         (session[s].pc = "s_end" /\ session'[s].pc # "s_end")
         => /\ battle'.status = "completed"
            /\ \A u \in Participants :
                 (battle'.winner = u) <=>
                   (\A v \in Participants \ {u} :
                      participants[u].score > participants[v].score)]_vars

\* C10: a tick re-reads the battle and goes on only if it is ACTIVE, with
\* remaining = max(0, ends_at - now) of the stored ends_at; it publishes a
\* timer_tick with that value; it goes to the end logic exactly when that
\* value is 0, so a timer_tick 0 has been published before the end logic
\* (and any battle_ended of this path); when the battle read is not ACTIVE
\* the loop ends without a tick.
C10_CountdownTick ==
    /\ [][\A s \in Sessions :
           /\ (timer[s].pc = "sleep" /\ timer'[s].pc = "tick")
                => /\ battle.status = "active"
                   /\ timer'[s].remaining =
                        (IF battle.ends_at - now > 0 THEN battle.ends_at - now ELSE 0)
           /\ (timer[s].pc = "sleep" /\ timer'[s] # timer[s] /\ battle.status # "active")
                => /\ timer'[s].pc \in {"done", "cancelled"}
                   /\ group_sent' = group_sent
           /\ (timer[s].pc = "tick" /\ timer'[s].pc \in {"sleep", "end"})
                => /\ group_sent'.timer_tick =
                        group_sent.timer_tick (+) SetToBag({timer[s].remaining})
                   /\ (timer'[s].pc = "end") <=> (timer[s].remaining = 0)]_vars
    /\ [](\A s \in Sessions :
            timer[s].pc = "end" => CopiesIn(0, group_sent.timer_tick) >= 1)
    /\ [](SentCount("battle_ended") > 0 /\ hist.end_requests = 0 /\ hist.submits = 0
            => CopiesIn(0, group_sent.timer_tick) >= 1)

\* The countdown has published timer_tick 0 and is about to call end_battle.
C10_Witness ==
    \E s \in Sessions :
       timer[s].pc = "end" /\ CopiesIn(0, group_sent.timer_tick) >= 1

\* C11: the battle has been activated (and a countdown started) only if both
\* participants have been marked connected, and a participant is marked
\* connected only by a connect handler of that participant: one participant
\* connecting any number of times never activates the battle.
C11_ActiveOnlyIfBothConnected ==
    /\ []( ( \/ hist.activations > 0
             \/ hist.timers_created > 0
             \/ battle.status = "active"
             \/ battle.started_at # NoTime
             \/ \E s \in Sessions : timer[s].pc # "none" )
           => BothMarked )
    /\ [][\A u \in Participants :
            (participants'[u].is_connected /\ ~participants[u].is_connected)
            => \E s \in Sessions : session[s].pc = "c_mark" /\ session[s].user = u]_vars

\* One participant has connected three times, every handler has finished, and
\* the battle is still WAITING with no countdown.
C11_Witness ==
    /\ hist.connects = MaxConnects
    /\ ~BothMarked
    /\ \E u \in Participants : participants[u].is_connected
    /\ \A s \in Sessions : session[s].pc \in {"idle", "closed"}
    /\ battle.status = "waiting"
    /\ hist.timers_created = 0

\* C12: started_at and ends_at are null exactly while the battle has never
\* been activated; ends_at = started_at + 30 min; once written they are never
\* written again; winner is null whenever the status is not COMPLETED.
C12_TimesSetOnceWinnerNullUntilCompleted ==
    /\ []( /\ (battle.started_at = NoTime) <=> (hist.activations = 0)
           /\ (battle.ends_at = NoTime) <=> (hist.activations = 0)
           /\ battle.started_at # NoTime =>
                battle.ends_at = battle.started_at + DURATION_MINUTES
           /\ battle.status # "completed" => battle.winner = NoUser )
    /\ [][battle.started_at # NoTime =>
            /\ battle'.started_at = battle.started_at
            /\ battle'.ends_at = battle.ends_at]_vars

\* A completed battle with a winner, after the clock has moved past its
\* activation and a session has connected again.
C12_Witness ==
    /\ battle.status = "completed"
    /\ battle.winner # NoUser
    /\ battle.started_at # NoTime
    /\ now > battle.started_at
    /\ \E s \in Sessions : session[s].pc = "c_refetch"

ScoreIn(payload, u) == IF u = Challenger THEN payload[1] ELSE payload[2]
SubmitPcs == {"s_judge", "s_txn", "s_bcast", "s_check", "s_end"}
C14_ScoreboardAfterCommit ==
    [][\A s \in Sessions :
         \* the broadcast is the step that follows the committed transaction
         /\ group_sent'.scoreboard_update # group_sent.scoreboard_update
              => \E b \in Sessions : session[b].pc = "s_bcast" /\ session'[b].pc # "s_bcast"
         /\ (session'[s].pc = "s_bcast" /\ session[s].pc # "s_bcast")
              => /\ session[s].pc = "s_txn"
                 /\ participants'[session[s].user].score =
                      participants[session[s].user].score + session[s].points
                 /\ BagCardinality(submissions') = BagCardinality(submissions) + 1
         \* it carries the scores with that update, and scores never decrease
         /\ (session[s].pc = "s_bcast" /\ session'[s].pc # "s_bcast")
              => \E payload \in BagToSet(group_sent'.scoreboard_update) :
                   /\ group_sent'.scoreboard_update =
                        group_sent.scoreboard_update (+) SetToBag({payload})
                   /\ ScoreIn(payload, session[s].user)
                        >= participants[session[s].user].score
         /\ \A u \in Participants : participants'[u].score >= participants[u].score
         \* the result goes to the submitter after the broadcast
         /\ (session[s].pc \in {"s_judge", "s_txn"} /\ session'[s].pc \notin SubmitPcs)
              => session[s].pc = "s_judge" /\ submissions' = submissions]_vars

\* An accepted submission of the challenger has been scored and broadcast
\* with its 10 points; its result has not been sent yet.
C14_Witness ==
    /\ \E s \in Sessions : session[s].pc = "s_check" /\ session[s].user = Challenger
                           /\ session[s].points = PROBLEM_POINTS
    /\ \E payload \in BagToSet(group_sent.scoreboard_update) :
         ScoreIn(payload, Challenger) = participants[Challenger].score
    /\ participants[Challenger].score >= PROBLEM_POINTS

\* C15: a submission earns 10 points iff its verdict is ACCEPTED and it is
\* the user's first ACCEPTED submission for that problem, else 0: among the
\* rows of a user for a problem, exactly one earned points when there is an
\* ACCEPTED row and none otherwise, whatever the opponent solved; and a
\* participant's score never decreases.
RowsOf(u, p) == {r \in BagToSet(submissions) : r.user = u /\ r.problem = p}
AwardedCount(u, p) ==
    LET awarded == {r \in RowsOf(u, p) : r.points_earned > 0}
    IN  IF awarded = {} THEN 0
        ELSE CopiesIn(CHOOSE r \in awarded : TRUE, submissions)
             + Cardinality(awarded) - 1
C15_FlatPointsFirstAccepted ==
    /\ [](\A u \in Participants, p \in Problems :
            /\ \A r \in RowsOf(u, p) :
                 /\ r.points_earned \in {0, PROBLEM_POINTS}
                 /\ r.points_earned > 0 => r.status = "accepted"
            /\ AwardedCount(u, p) =
                 (IF has_user_solved_problem(submissions, u, p) THEN 1 ELSE 0))
    /\ [][\A u \in Participants : participants'[u].score >= participants[u].score]_vars

\* The cases of a finished LocalSandbox.run.
LocalDone == judge.pc = "done" /\ judge.backend = "local"

\* Case i exited 0 without a timeout and printed the expected output, up to
\* normalization.
CleanCase(e) == e.rc = 0 /\ e.kind = "ran" /\ ~e.timed_out /\ e.equal

\* C16: a finished run is ACCEPTED with no failing case exactly when every
\* test case exited 0, did not time out and printed output whose normalized
\* form equals the normalized expected output.
C16_AcceptedIffAllCasesPass ==
    LocalDone =>
      ((judge.result.status = "accepted" /\ judge.result.failed_case = NoCase)
         <=> (/\ Len(judge.log) = judge.n_cases
              /\ \A i \in 1 .. Len(judge.log) : CleanCase(judge.log[i])))

FailureVerdicts == {"compile_error", "time_limit", "runtime_error", "wrong_answer"}

RECURSIVE SumMs(_)
SumMs(log) == IF log = <<>> THEN 0 ELSE log[1].ms + SumMs(Tail(log))

\* The 1-based index of the first failing case a finished judge reports:
\* failed_case of run's dict, test_cases_passed + 1 of the judged submission.
ReportedFailedCase ==
    IF judge.backend = "local" THEN judge.result.failed_case ELSE judge.passed + 1

\* A finished judge of the given backend whose first failure is at case k
\* has executed cases 1..k only, reports k, the verdict of case k and the
\* sum of the times of cases 1..k.
ReportsFirstFailure(backend) ==
    (judge.pc = "done" /\ judge.backend = backend
       /\ judge.result.status \in FailureVerdicts) =>
      LET k == Len(judge.log)
      IN  /\ k >= 1 /\ k <= judge.n_cases
          /\ judge.log[k].verdict # "pass"
          /\ \A i \in 1 .. k - 1 : judge.log[i].verdict = "pass"
          /\ ReportedFailedCase = k
          /\ judge.result.status = judge.log[k].verdict
          /\ judge.result.execution_time_ms = SumMs(judge.log)

\* C17: the judge runs the test cases in order and none after the first
\* failing one; with the first failure at case k it reports failed_case = k,
\* the verdict of case k and execution_time = the sum of the times of cases
\* 1..k.
C17_StopsAtFirstFailure ==
    /\ [](ReportsFirstFailure("local") /\ ReportsFirstFailure("task"))
    /\ [][judge'.log # judge.log =>
            /\ judge.pc # "done"
            /\ Len(judge'.log) = Len(judge.log) + 1
            /\ SubSeq(judge'.log, 1, Len(judge.log)) = judge.log]_vars

\* The verdict the classification rule gives the executed case e.
RuleVerdict(e) ==
    IF e.kind \in {"unsupported", "compiler_missing", "runtime_missing", "compile_failed"}
    THEN "compile_error"
    ELSE IF e.timed_out THEN "time_limit"
    ELSE IF e.rc # 0 THEN "runtime_error"
    ELSE IF ~e.equal THEN "wrong_answer"
    ELSE "pass"

\* C18: the verdict of a failing case is COMPILE_ERROR when the toolchain is
\* missing or the compile phase exits non-zero, TIME_LIMIT when the executor
\* reports a timeout, RUNTIME_ERROR for any other non-zero exit, WRONG_ANSWER
\* when the exit code is 0 and the normalized outputs differ.
C18_VerdictClassification ==
    judge.backend = "local" =>
      \A i \in 1 .. Len(judge.log) :
         (/\ judge.log[i].kind \notin {"exception", "compile_timeout"}
          /\ RuleVerdict(judge.log[i]) # "pass")
            => judge.log[i].verdict = RuleVerdict(judge.log[i])

\* C19: a program whose run takes longer than the problem's time_limit_ms is
\* judged TIME_LIMIT, and the executor reports it with exit_code -1.
C19_OverLimitIsTimeLimit ==
    judge.backend = "local" =>
      \A i \in 1 .. Len(judge.log) :
         (judge.log[i].kind = "ran" /\ judge.log[i].t > judge.time_limit_ms)
            => (judge.log[i].verdict = "time_limit" /\ judge.log[i].exit_code = -1)

\* The control points inside an execute call of either sandbox.
InExecute == judge.pc \in {"exec", "d_dir", "d_wait"}

\* C20: whenever execute has returned or raised, on any of its exit paths,
\* the scratch directory it made and the container it created no longer exist.
C20_NothingLeftAfterExecute ==
    ~InExecute => (judge.scratch = 0 /\ judge.containers = 0)

\* C21: execute of either sandbox never raises for a failure caused by the
\* submitted code (unsupported language, compile failure, crash, timeout,
\* memory): it raises only for a failure of the isolation backend.
C21_ExecuteNeverRaisesForUserCode ==
    judge.raised # "none" =>
      (judge.supported /\ judge.raised = "CodeExecutionError")

RunningTimers == {s \in Sessions : timer[s].pc \in {"sleep", "tick", "end"}}

\* C22: a connect by an unauthenticated user, by a user who is neither the
\* challenger nor the opponent, or for a battle that does not exist is closed
\* with 4001 / 4003 / 4004 and changes nothing: no participant is marked
\* connected, the session does not join the group, the battle keeps its
\* status and no countdown is started.
C22_RejectedConnectMutatesNothing ==
    /\ [](\A s \in Sessions :
            /\ session[s].pc = "rejected" =>
                 /\ session[s].close_code \in {4001, 4003, 4004}
                 /\ session[s].close_code = 4001 <=> session[s].user = Anonymous
                 /\ session[s].close_code = 4003 => session[s].user = Outsider
                 /\ s \notin group
            /\ session[s].user \notin Participants =>
                 session[s].pc \in {"rejected", "closed", "crashed"})
    /\ [][\A s \in Sessions :
            ((session[s].pc = "rejected") # (session'[s].pc = "rejected"))
               => /\ UNCHANGED <<dbvars, group_sent>>
                  /\ group' \subseteq group
                  /\ RunningTimers' = RunningTimers
                  /\ hist'.timers_created = hist.timers_created]_vars

C22_Witness ==
    /\ \E s \in Sessions : session[s].pc = "rejected" /\ session[s].close_code = 4003
    /\ \E s \in Sessions : session[s].pc = "rejected" /\ session[s].close_code = 4004
    /\ \E u \in Participants : participants[u].is_connected

\* C23: when the sandbox raises during a battle submission the session stays
\* open and gets the error result itself, nothing is published to the group,
\* no BattleSubmission is recorded, and the battle and both participants'
\* rows are unchanged.
C23_JudgeFailureNotFatal ==
    [][\A s \in Sessions :
         (session[s].pc = "s_judge" /\ session'[s].pc # "s_judge")
            => /\ session'[s].pc \in {"s_txn", "idle"}
               /\ session'[s].user = session[s].user
               /\ \A t \in Sessions \ {s} : session'[t] = session[t]
               /\ UNCHANGED <<dbvars, group, group_sent, timer>>
               /\ session'[s].pc = "idle" =>
                    (session'[s].verdict = "none" /\ session'[s].points = 0)]_vars

\* A submission made on the active battle has been answered with the error
\* result: it was handled, and there is no row for it.
C23_Witness ==
    /\ battle.status = "active"
    /\ hist.submits >= 1
    /\ submissions = EmptyBag
    /\ \A s \in Sessions : session[s].pc = "idle" /\ s \in group

PendingRequests == {i \in DOMAIN requests.rows : requests.rows[i].status = "pending"}

\* C24: under every interleaving of send_battle_request calls there is at
\* most one PENDING BattleRequest of the challenger to the opponent.
C24_AtMostOnePendingRequest == Cardinality(PendingRequests) <= 1

TerminalRequestStatuses == {"accepted", "rejected", "cancelled", "expired"}

\* C25: a Battle exists for a request only if the request is ACCEPTED, each
\* request spawns at most one Battle, a Battle is created only from a request
\* that is PENDING and not past its expiry, and a request that is ACCEPTED,
\* REJECTED, CANCELLED or EXPIRED never changes its status again.
C25_RequestLifecycle ==
    /\ [](\A i \in DOMAIN requests.rows :
            /\ requests.rows[i].battles <= 1
            /\ requests.rows[i].battles > 0 => requests.rows[i].status = "accepted")
    /\ [][\A i \in DOMAIN requests.rows :
            /\ requests.rows[i].status \in TerminalRequestStatuses
                 => requests'.rows[i].status = requests.rows[i].status
            /\ requests'.rows[i].battles > requests.rows[i].battles
                 => (requests.rows[i].status = "pending"
                       /\ now <= requests.rows[i].expires_at)]_vars

\* A step of the staleness sweep: the Battle row changes while no session
\* handler and no countdown moves.
SweepStep == battle' # battle /\ UNCHANGED <<session, timer>>

\* C26: the sweep cancels WAITING battles older than the grace window; it
\* completes ACTIVE battles whose ends_at has passed the way the other end
\* triggers do, with ended_at persisted and battle_ended published; it
\* cancels stale ACTIVE battles without ends_at; it never touches a
\* COMPLETED or CANCELLED battle.
C26_SweepUsesConditionalEndPath ==
    [][SweepStep =>
         /\ battle.status \in {"waiting", "active"}
         /\ battle.status = "waiting" =>
              /\ battle'.status = "cancelled"
              /\ battle.created_at < now - STALE_WAITING_MINUTES
         /\ (battle.status = "active" /\ battle.ends_at # NoTime) =>
              /\ battle.ends_at < now
              /\ battle'.status = "completed"
              /\ battle'.ended_at # NoTime
              /\ SentCount("battle_ended")' = SentCount("battle_ended") + 1
         /\ (battle.status = "active" /\ battle.ends_at = NoTime) =>
              battle'.status = "cancelled"]_vars

\* The sessions of user u that are open, and those already marked.
OpenSessions(u) ==
    {s \in Sessions : session[s].user = u
                        /\ session[s].pc \notin {"closed", "crashed", "rejected"}}
MarkedSessions(u) == {s \in OpenSessions(u) : session[s].pc # "c_mark"}

\* C27: a participant's connected flag is true exactly while the user has an
\* open battle session: set on connect, back to false on disconnect.
C27_ConnectedFlagTracksSessions ==
    \A u \in Participants :
       /\ participants[u].is_connected => OpenSessions(u) # {}
       /\ MarkedSessions(u) # {} => participants[u].is_connected

\* C28: once the battle is COMPLETED or CANCELLED no BattleSubmission is
\* recorded and no participant's score or problems_solved changes, also for
\* a submission that was taken for judging while the battle was ACTIVE.
C28_NoScoringAfterEnd ==
    [][battle.status \in {"completed", "cancelled"} =>
         /\ submissions' = submissions
         /\ \A u \in Participants :
              /\ participants'[u].score = participants[u].score
              /\ participants'[u].problems_solved = participants[u].problems_solved]_vars

\* C29: an ACTIVE battle whose ends_at has passed is eventually COMPLETED by
\* the countdown and the participants' reconnects alone, without a sweep,
\* also when the session that owns the countdown has disconnected.
C29_ActiveEventuallyCompleted ==
    (battle.status = "active" /\ now > battle.ends_at) ~> (battle.status = "completed")

\* A step of session s that runs the losing side of a race: its activation
\* update finds the battle no longer WAITING, or its end trigger (request_end,
\* the all-solved end, the countdown's end) acts on a battle that another
\* caller has already made COMPLETED.
LosesConnectRace(s) ==
    session[s].pc = "c_activate" /\ session'[s].pc # "c_activate"
    /\ battle.status # "waiting"
LosesEndRace(s) ==
    /\ battle.status = "completed"
    /\ \/ session[s].pc = "idle" /\ hist'.end_requests = hist.end_requests + 1
       \/ session[s].pc = "s_end" /\ session'[s].pc # "s_end"
       \/ timer[s].pc = "end" /\ timer'[s].pc # "end"

\* C30: losing a race is a no-op and never an error: the step of the caller
\* whose activation or end trigger lost changes nothing of the persisted
\* battle state (status, started/ended times, winner, scores, user stats),
\* publishes nothing to the group, and does not end the caller's session
\* with an exception; so the final state does not depend on who won.
C30_LosingRaceIsNoOp ==
    [][\A s \in Sessions :
         (LosesConnectRace(s) \/ LosesEndRace(s))
         => /\ UNCHANGED <<dbvars, group_sent>>
            /\ session'[s].pc # "crashed"]_vars



\* A step in which the connect handler of session s ends, and one in which
\* it ends as the caller that found both participants connected and whose
\* activation update changed no row (a late joiner of an ACTIVE battle is
\* such a caller: both connected flags are already set).
ConnectEnds(s) ==
    session[s].pc \in {"c_count", "c_start", "c_refetch"} /\ session'[s].pc = "idle"
LoserConnectEnds(s) ==
    session[s].pc = "c_refetch" /\ session'[s].pc = "idle"
LoserStartsNothing(s) ==
    /\ timer'[s] = timer[s]
    /\ timer[s].pc = "none"
    /\ group_sent' = group_sent
    /\ hist'.timers_created = hist.timers_created

OpenBattlesOf(u) ==
    {i \in DOMAIN requests.battles :
       /\ requests.battles[i].status \in {"waiting", "active"}
       /\ u \in {requests.battles[i].challenger, requests.battles[i].opponent}}

\* C32: every user is challenger or opponent of at most one battle whose
\* status is WAITING or ACTIVE.
C32_AtMostOneOpenBattlePerUser ==
    \A u \in Users : Cardinality(OpenBattlesOf(u)) <= 1



\* The sum of points_earned over the BattleSubmission rows of user u.
RECURSIVE SumPoints(_, _)
SumPoints(rows, subs) ==
    IF rows = {} THEN 0
    ELSE LET r == CHOOSE x \in rows : TRUE
         IN  r.points_earned * CopiesIn(r, subs) + SumPoints(rows \ {r}, subs)
PointsOf(u) == SumPoints({r \in BagToSet(submissions) : r.user = u}, submissions)
SolvedBy(u) == {p \in Problems : has_user_solved_problem(submissions, u, p)}

\* C33: for each participant, score is the sum of points_earned over the
\* user's submissions, score = 10 x problems_solved, problems_solved is the
\* number of distinct problems with an ACCEPTED submission of the user, and
\* score <= 10 x the number of assigned problems.
C33_ScoreConsistency ==
    \A u \in Participants :
       /\ participants[u].score = PointsOf(u)
       /\ participants[u].score = PROBLEM_POINTS * participants[u].problems_solved
       /\ participants[u].problems_solved = Cardinality(SolvedBy(u))
       /\ participants[u].score <= PROBLEM_POINTS * NProblems



\* A step in which session s finishes one of the two implementations of
\* battle completion on a battle it found ACTIVE: end_battle called by the
\* countdown or by the all-solved check, or _end_battle_sync_from_completed
\* after the conditional update of request_end.
EndBattleFinishes(s) ==
    /\ battle.status = "active"
    /\ \/ timer[s].pc = "end" /\ timer'[s].pc # "end"
       \/ session[s].pc = "s_end" /\ session'[s].pc # "s_end"
RequestEndFinishes(s) ==
    session[s].pc = "e_sync" /\ session'[s].pc # "e_sync"
WinnerByScore(parts) ==
    IF \E u \in Participants : \A v \in Participants \ {u} : parts[u].score > parts[v].score
    THEN CHOOSE u \in Participants : \A v \in Participants \ {u} : parts[u].score > parts[v].score
    ELSE NoUser
CompletedAs(s) ==
    /\ battle'.status = "completed"
    /\ battle'.winner = WinnerByScore(participants)
    /\ battle'.ended_at # NoTime
    /\ user_stats' = WonUpdated(PlayedUpdated(user_stats), battle'.winner)
    /\ group_sent' = GroupSend("battle_ended", battle'.winner)

\* C34: end_battle and the request_end path are equivalent: from an ACTIVE
\* battle and the same scores each ends with status COMPLETED, the winner by
\* score, ended_at set, the same user stat increments and the same
\* battle_ended published; and no reachable state has a COMPLETED battle
\* without ended_at.
C34_EndPathsEquivalent ==
    /\ [](battle.status = "completed" => battle.ended_at # NoTime)
    /\ [][\A s \in Sessions :
            (EndBattleFinishes(s) \/ RequestEndFinishes(s)) => CompletedAs(s)]_vars



FinalStatuses ==
    {"accepted", "wrong_answer", "time_limit", "memory_limit", "runtime_error",
     "compile_error", "internal_error"}

\* C35: a task that fails with an infrastructure error marks the submission
\* INTERNAL_ERROR and is retried at most max_retries (2) times; every created
\* submission that is PENDING or RUNNING eventually has a final status.
C35_BoundedRetryAndFinalStatus ==
    /\ [](judge.retries <= max_retries)
    /\ [][(judge.pc = "done" /\ judge.raised # "none" /\ judge'.pc # "done")
            => judge'.sub_status = "internal_error"]_vars
    /\ (judge.sub_status \in {"pending", "running"})
         ~> (judge.sub_status \in FinalStatuses)



\* C36: while the sandbox run of one session's submission is in progress, the
\* countdown of the same process can take its next tick (re-read the battle)
\* whenever the tick is due, and another session can handle a request_end
\* message whenever it has one to handle.
C36_JudgeDoesNotBlockProcess ==
    \A s, t \in Sessions :
       session[s].pc = "s_judge" =>
          /\ ENABLED TimerFetch(t) => ENABLED ProcessTimerFetch(t)
          /\ (t # s /\ ENABLED _handle_request_end(t)) => ENABLED ProcessRequestEnd(t)



\* The comparison rule as stated: trailing whitespace stripped from each
\* line, leading and trailing blank lines removed, everything else kept.
RECURSIVE DropLeadingBlank(_)
DropLeadingBlank(lines) ==
    IF lines = <<>> THEN lines
    ELSE IF Head(lines) = <<>> THEN DropLeadingBlank(Tail(lines)) ELSE lines
RECURSIVE DropTrailingBlank(_)
DropTrailingBlank(lines) ==
    IF lines = <<>> THEN lines
    ELSE IF lines[Len(lines)] = <<>>
         THEN DropTrailingBlank(SubSeq(lines, 1, Len(lines) - 1)) ELSE lines
RTrimSpaces(line) == rstrip(line)
RuleNormalize(str) ==
    LET lines == splitlines(str)
    IN  join(DropTrailingBlank(DropLeadingBlank(
               [i \in 1 .. Len(lines) |-> RTrimSpaces(lines[i])])))

\* C37: the outputs of a test case compare equal (the case passes) if and
\* only if they are identical after stripping trailing whitespace from each
\* line and removing leading and trailing blank lines; any other difference
\* gives WRONG_ANSWER.
C37_OutputComparisonRule ==
    judge.pc = "compared"
    => /\ judge.result.status \in {"accepted", "wrong_answer"}
       /\ (judge.result.status = "accepted")
            <=> (RuleNormalize(judge.stdout) = RuleNormalize(judge.expected))


====
